---- MODULE Spec2Model ----
(***************************************************************************)
(* Operator-dispatch core of diffusion-rs: the fused attention (sdpa)      *)
(* dispatcher, the fused batched matmul, and the fused softmax / norm      *)
(* operators of nn/ops.rs and cublaslt/api.rs.                             *)
(*                                                                         *)
(* A behaviour is one operator call: from the idle state a caller invokes  *)
(* one public operator on operands drawn from bounded sets; the action is  *)
(* the whole forward method.  It records                                   *)
(*   call   - the operands the caller passed,                              *)
(*   result - what the call returned (ok / err / panic),                   *)
(*   dev    - the device-side steps the call performed, in program order   *)
(*            (buffer allocations, command-buffer acquisition, kernel      *)
(*            launches, vendor GEMM calls),                                *)
(*   xs     - the caller's tensor binding and its storage after the call   *)
(*            (for the in-place operators).                                *)
(*                                                                         *)
(* A second specification, RowsSpec, follows one CPU kernel through the    *)
(* closures that par_chunks(dim_m1).for_each runs, one per row, in any     *)
(* interleaving:                                                           *)
(*   workers - the position of every row closure, its local accumulator,   *)
(*             the buffer the rows are written to, who read and wrote     *)
(*             which element, and the order the rows were finished in.     *)
(***************************************************************************)
EXTENDS Integers, Sequences, FiniteSets, TLC

VARIABLES pc, call, result, dev, xs, workers

vars == <<pc, call, result, dev, xs, workers>>

(***************************************************************************)
(* Bounds of the model.                                                    *)
(***************************************************************************)
MaxBatch == 2
MaxQHeads == 3
\* longest row (last dimension) of the softmax and norm inputs
MaxLastDim == 3
\* tensor elements are the multiples k / Unit of 1 / Unit, 0 <= k <= Unit
Unit == 6
\* floating-point values are kept to FracDigits decimal digits
FracDigits == 6

(***************************************************************************)
(* Shapes and layouts (the tensor core's Layout / Shape API).              *)
(***************************************************************************)
RECURSIVE Prod(_)
Prod(s) == IF s = <<>> THEN 1 ELSE Head(s) * Prod(Tail(s))

\* elem_count of a shape
ElemCount(dims) == Prod(dims)

\* row-major strides of a shape: stride[i] = product of the dims after i
RowMajorStride(dims) ==
    [i \in 1..Len(dims) |-> Prod(SubSeq(dims, i + 1, Len(dims)))]

\* strides of the transposed view of a row-major tensor (last two dims swapped
\* in memory): the view has shape dims, its memory is laid out for the
\* transposed shape
TransposedStride(dims) ==
    LET n == Len(dims)
        rm == RowMajorStride(dims)
    IN  IF n < 2 THEN [i \in 1..n |-> 2 * rm[i]]
        ELSE [i \in 1..n |->
                IF i = n THEN dims[n - 1]
                ELSE IF i = n - 1 THEN 1
                ELSE rm[i]]

Layout(dims, stride, start_offset) ==
    [dims |-> dims, stride |-> stride, start_offset |-> start_offset]

ContiguousLayout(dims) == Layout(dims, RowMajorStride(dims), 0)
StridedLayout(dims) == Layout(dims, TransposedStride(dims), 0)

\* Layout::is_contiguous: strides are the row-major strides of the shape
IsContiguous(l) == l.stride = RowMajorStride(l.dims)

\* Layout::dim(i): Ok for 0 <= i < rank
DimOk(dims, i) == i >= 0 /\ i < Len(dims)
Dim(dims, i) == dims[i + 1]

\* Layout::dim(D::Minus(k)): Ok for 1 <= k <= rank
MinusOk(dims, k) == k >= 1 /\ k <= Len(dims)
DimMinus(dims, k) == dims[Len(dims) - k + 1]

(***************************************************************************)
(* Results and device-side events.                                         *)
(***************************************************************************)
\* a result is Ok with the shape (and, where the values are modelled, the
\* elements) of the returned tensor, an Err value, or a panic
NoShape == <<>>
NoData == <<>>
NoDType == "none"
\* Ok((storage, shape)): the shape, and the element type, element count and
\* (where the values are modelled) elements of the storage
OkStorage(shape, dtype, elem_count, data) ==
    [kind |-> "ok", err |-> "", shape |-> shape, data |-> data,
     dtype |-> dtype, elem_count |-> elem_count]
Ok(shape) == OkStorage(shape, NoDType, 0, NoData)
Err(msg) ==
    [kind |-> "err", err |-> msg, shape |-> NoShape, data |-> NoData,
     dtype |-> NoDType, elem_count |-> 0]
Panic(msg) ==
    [kind |-> "panic", err |-> msg, shape |-> NoShape, data |-> NoData,
     dtype |-> NoDType, elem_count |-> 0]
NoResult ==
    [kind |-> "none", err |-> "", shape |-> NoShape, data |-> NoData,
     dtype |-> NoDType, elem_count |-> 0]

NewBuffer(label, n) == [ev |-> "new_buffer", name |-> label, n |-> n]
CommandBuffer == [ev |-> "command_buffer", name |-> "", n |-> 0]
Kernel(name) == [ev |-> "kernel", name |-> name, n |-> 0]

Outcome(res, d) == [res |-> res, dev |-> d]

(***************************************************************************)
(* Scaled dot product attention: Sdpa::cpu_fwd, Sdpa::metal_fwd, sdpa.     *)
(* An operand is [l |-> layout, dtype |-> element type].                   *)
(***************************************************************************)
Operand(l, dtype) == [l |-> l, dtype |-> dtype]

SDPA_FULL_THRESHOLD == 2
TWO_PASS_K_THRESHOLD == 1024
\* crate::metal_kernels::SDPA_2PASS_BLOCKS, the block count of the two-pass kernel
SDPA_2PASS_BLOCKS == 32

ErrDimOutOfRange == "dim out of range"
ErrSdpaMultiple == "query n_heads must be a multiple of n_kv_heads"
ErrSdpaHeadDim == "Meta SDPA does not support q head dim"
ErrSdpaUseCase == "Meta SDPA does not support q dims"

\* supported_head_dim with 96 left out of the list
SupportedHeadDim_Without96(q_head) == q_head \in {32, 64, 128, 256}

\* the multiple test with its operands exchanged
QHeadsMultiple_Exchanged(n_heads, n_kv_heads) == n_kv_heads % n_heads = 0

\* q_l.dim(D::Minus(3))? % k_l.dim(D::Minus(3))? != 0 (negated)
QHeadsMultiple(n_heads, n_kv_heads) == n_heads % n_kv_heads = 0

\* let supported_head_dim = q_head == 32 || ... || q_head == 256
SupportedHeadDim(q_head) == q_head \in {32, 64, 96, 128, 256}

\* supports_sdpa_full with > in place of >=
SupportsSdpaFull_AboveThreshold(q_seq, q_head, k_head) ==
    q_seq > SDPA_FULL_THRESHOLD /\ SupportedHeadDim(q_head) /\ q_head = k_head

\* let supports_sdpa_full = q_seq >= SDPA_FULL_THRESHOLD && supported_head_dim
\*                          && q_head == k_head
\* (q_head and k_head are the LAST dims of q and k, not their head counts)
SupportsSdpaFull(q_seq, q_head, k_head) ==
    q_seq >= SDPA_FULL_THRESHOLD /\ SupportedHeadDim(q_head) /\ q_head = k_head

\* let supports_sdpa_vector = q_seq == 1 && supported_head_dim
SupportsSdpaVector(q_seq, q_head) == q_seq = 1 /\ SupportedHeadDim(q_head)

\* implementation_supports_use_case = (q_head == k_head)
\*                                    & (supports_sdpa_full || supports_sdpa_vector)
ImplementationSupportsUseCase(q_seq, q_head, k_head) ==
    /\ q_head = k_head
    /\ (SupportsSdpaFull(q_seq, q_head, k_head) \/ SupportsSdpaVector(q_seq, q_head))

\* the two-pass test with > in place of >=
UseTwoPass_StrictlyAbove(k_seq) == k_seq > TWO_PASS_K_THRESHOLD

\* if k_l.dim(2)? >= TWO_PASS_K_THRESHOLD
UseTwoPass(k_seq) == k_seq >= TWO_PASS_K_THRESHOLD

\* the kernel dispatch with the sequence-length test of the full path left out
SdpaDispatch_SeqUnchecked(q, k, out_dims, d) ==
    LET ql == q.l.dims
        kl == k.l.dims
        q_seq == Dim(ql, 2)
        q_head == DimMinus(ql, 1)
        k_head == DimMinus(kl, 1)
        \* MetalStorage::new(output, device.clone(), elem_count, q.dtype())
        newstorage == OkStorage(out_dims, q.dtype, Prod(out_dims), NoData)
    IN  IF SupportsSdpaVector(q_seq, q_head)
        THEN IF UseTwoPass(Dim(kl, 2))
             THEN LET lead == out_dims[1] * out_dims[2] * SDPA_2PASS_BLOCKS
                  IN  Outcome(newstorage,
                        d \o <<NewBuffer("sdpa_2pass_intermediate", lead * out_dims[4]),
                               NewBuffer("sdpa_2pass_sums", lead),
                               NewBuffer("sdpa_2pass_maxs", lead),
                               Kernel("sdpa_vector_2pass")>>)
             ELSE Outcome(newstorage, d \o <<Kernel("sdpa_vector")>>)
        ELSE IF SupportsSdpaFull(q_seq, q_head, k_head)
        THEN Outcome(newstorage, d \o <<Kernel("sdpa_full")>>)
        ELSE Outcome(Err("must be vector or full sdpa kernel"), d)

\* the kernel dispatch of metal_fwd, after the command buffer was acquired
\* (d is the device log so far)
SdpaDispatch(q, k, out_dims, d) ==
    LET ql == q.l.dims
        kl == k.l.dims
        q_seq == Dim(ql, 2)
        q_head == DimMinus(ql, 1)
        k_head == DimMinus(kl, 1)
        \* MetalStorage::new(output, device.clone(), elem_count, q.dtype())
        newstorage == OkStorage(out_dims, q.dtype, Prod(out_dims), NoData)
    IN  IF SupportsSdpaVector(q_seq, q_head)
        THEN IF UseTwoPass(Dim(kl, 2))
             THEN LET lead == out_dims[1] * out_dims[2] * SDPA_2PASS_BLOCKS
                  IN  Outcome(newstorage,
                        d \o <<NewBuffer("sdpa_2pass_intermediate", lead * out_dims[4]),
                               NewBuffer("sdpa_2pass_sums", lead),
                               NewBuffer("sdpa_2pass_maxs", lead),
                               Kernel("sdpa_vector_2pass")>>)
             ELSE Outcome(newstorage, d \o <<Kernel("sdpa_vector")>>)
        ELSE IF SupportsSdpaFull(q_seq, q_head, k_head)
        THEN IF Dim(ql, 2) # Dim(kl, 2)
             THEN Outcome(Err("query and key sequence length must be equal if using full metal sdpa"), d)
             ELSE Outcome(newstorage, d \o <<Kernel("sdpa_full")>>)
        ELSE Outcome(Err("must be vector or full sdpa kernel"), d)

\* the eligibility checks of metal_fwd, after the output buffer was allocated
SdpaChecks(q, k, v, out_dims, d) ==
    LET ql == q.l.dims
        kl == k.l.dims
        vl == v.l.dims
    IN  IF ~MinusOk(kl, 1) THEN Outcome(Err(ErrDimOutOfRange), d)
        ELSE IF DimMinus(ql, 1) # DimMinus(kl, 1) THEN Outcome(Err("q and k last dims must match"), d)
        ELSE IF ~MinusOk(kl, 3) THEN Outcome(Err(ErrDimOutOfRange), d)
        ELSE IF DimMinus(vl, 3) # DimMinus(kl, 3) THEN Outcome(Err("k and v head dims must match"), d)
        ELSE IF DimMinus(kl, 3) = 0 THEN Outcome(Panic("attempt to calculate the remainder with a divisor of zero"), d)
        ELSE IF ~QHeadsMultiple(DimMinus(ql, 3), DimMinus(kl, 3))
             THEN Outcome(Err(ErrSdpaMultiple), d)
        ELSE IF ~SupportedHeadDim(DimMinus(ql, 1)) THEN Outcome(Err(ErrSdpaHeadDim), d)
        ELSE IF ~ImplementationSupportsUseCase(Dim(ql, 2), DimMinus(ql, 1), DimMinus(kl, 1))
             THEN Outcome(Err(ErrSdpaUseCase), d)
        ELSE IF q.dtype # k.dtype \/ q.dtype # v.dtype THEN Outcome(Err("all q, k, v dtypes must match."), d)
        ELSE IF q.dtype \notin {"BF16", "F16", "F32"} THEN Outcome(Err("unsupported sdpa type"), d)
        ELSE SdpaDispatch(q, k, out_dims, d \o <<CommandBuffer>>)

\* out_dims with the hidden size of q in place of the hidden size of v
SdpaOutDims_QHidden(ql, vl) == <<Dim(ql, 0), Dim(ql, 1), Dim(ql, 2), Dim(ql, 3)>>

\* let out_dims = vec![q_l.dim(0)?, q_l.dim(1)?, q_l.dim(2)?, v_l.dim(3)?]
SdpaOutDims(ql, vl) == <<Dim(ql, 0), Dim(ql, 1), Dim(ql, 2), Dim(vl, 3)>>

\* Sdpa::metal_fwd
SdpaMetalFwd(q, k, v) ==
    LET ql == q.l.dims
        vl == v.l.dims
    IN  IF ~(DimOk(ql, 0) /\ DimOk(ql, 1) /\ DimOk(ql, 2) /\ DimOk(vl, 3))
        THEN Outcome(Err(ErrDimOutOfRange), <<>>)
        ELSE LET out_dims == SdpaOutDims(ql, vl)
                 elem_count == Prod(out_dims)
             IN  SdpaChecks(q, k, v, out_dims,
                            <<NewBuffer("sdpa_o", elem_count)>>)

\* Sdpa::cpu_fwd
SdpaCpuFwd(q, k, v) == Outcome(Err("SDPA has no cpu impl"), <<>>)

\* sdpa: q.apply_op3_no_bwd(k, v, &Sdpa {..}) runs the forward of the backend that holds q
SdpaFwd(backend, q, k, v) ==
    IF backend = "metal" THEN SdpaMetalFwd(q, k, v) ELSE SdpaCpuFwd(q, k, v)

(***************************************************************************)
(* Fused batched matmul: CublasLTBatchMatmul::fwd_f16 / fwd_bf16 / fwd_f32,*)
(* cpu_fwd, cuda_fwd, fused_batch_matmul.                                  *)
(* Optional values are [some |-> BOOLEAN, ...].                            *)
(***************************************************************************)
None == [some |-> FALSE]
SomeF(x) == [some |-> TRUE, val |-> x]
UnwrapOr(o, dflt) == IF o.some THEN o.val ELSE dflt
\* an optional tensor: its layout, element type and the backend of its storage
SomeT(l, dtype, backend) == [some |-> TRUE, l |-> l, dtype |-> dtype, backend |-> backend]

\* c_int is a 32-bit signed integer
C_INT_MAX == 2147483647

ErrRank == "unexpected rank"
ErrUnexpectedDType == "unexpected dtype"

\* Layout::contiguous_offsets
ContiguousOffsets(l) ==
    IF IsContiguous(l)
    THEN [some |-> TRUE, o1 |-> l.start_offset, o2 |-> l.start_offset + ElemCount(l.dims)]
    ELSE None

\* dev.alloc::<T>(n): device memory that is NOT initialised; its contents are
\* whatever the allocator returned (fill)
Alloc(n, fill) == [ev |-> "alloc", name |-> fill, n |-> n]
\* c.clone() of a CudaSlice: a new device buffer holding a copy of c
CloneC(n) == [ev |-> "clone", name |-> "c", n |-> n]
\* self.cublaslt.matmul(config, &a, &b, &mut out, bias, act)
Gemm(config, out, bias, act) ==
    [ev |-> "gemm", name |-> "cublaslt_matmul", n |-> 0,
     config |-> config, out |-> out, bias |-> bias, act |-> act]

\* let config = MatmulConfig { .. }, then the vendor call and the result
MatmulIssue(op, a, b, bias_some, out_shape, out, stride_c, d) ==
    LET batch_size == a.l.dims[1]
        m == a.l.dims[2]
        k == a.l.dims[3]
        n == b.l.dims[2]
    IN  IF batch_size > C_INT_MAX THEN Outcome(Err("out of range integral type conversion attempted"), d)
        ELSE LET config == [transa |-> TRUE, transb |-> FALSE,
                            m |-> m, n |-> n, k |-> k,
                            alpha |-> UnwrapOr(op.alpha, 1),
                            lda |-> k, ldb |-> k,
                            beta |-> UnwrapOr(op.beta, 0),
                            ldc |-> m,
                            stride_a |-> a.l.stride[1],
                            stride_b |-> b.l.stride[1],
                            stride_c |-> stride_c,
                            batch_size |-> batch_size]
             IN  Outcome(Ok(out_shape), d \o <<Gemm(config, out, bias_some, op.act)>>)

\* out_shape with m and n exchanged
OutShape_MN(batch_size, n, m) == <<batch_size, m, n>>
\* let out_shape = Shape::from((batch_size, n, m))
OutShape(batch_size, n, m) == <<batch_size, n, m>>

\* MatmulOut without the dims3 comparison of c with (batch_size, n, m)
MatmulOut_ShapeUnchecked(T, op, a, b, bias_some, out_shape, fill) ==
    LET n == b.l.dims[2]
        m == a.l.dims[2]
        c == op.c
    IN  IF c.some
        THEN IF c.backend # "cuda" THEN Outcome(Err("c must be a cuda tensor"), <<>>)
             ELSE IF c.dtype # T THEN Outcome(Err(ErrUnexpectedDType), <<>>)
             ELSE IF ~ContiguousOffsets(c.l).some
                  THEN Outcome(Err("c has to be contiguous"), <<>>)
             ELSE IF ContiguousOffsets(c.l).o1 # 0 THEN Outcome(Err("c start offset must be 0"), <<>>)
             ELSE IF ContiguousOffsets(c.l).o2 # ElemCount(out_shape)
                  THEN Outcome(Err("c end offset must be the output element count"), <<>>)
             ELSE MatmulIssue(op, a, b, bias_some, out_shape, "copy_of_c", c.l.stride[1],
                              <<CloneC(ElemCount(out_shape))>>)
        ELSE MatmulIssue(op, a, b, bias_some, out_shape, fill, n * m,
                         <<Alloc(ElemCount(out_shape), fill)>>)

\* let (mut out, stride_c) = if let Some(c) = &self.c { .. } else { .. }
MatmulOut(T, op, a, b, bias_some, out_shape, fill) ==
    LET n == b.l.dims[2]
        m == a.l.dims[2]
        c == op.c
    IN  IF c.some
        THEN IF c.backend # "cuda" THEN Outcome(Err("c must be a cuda tensor"), <<>>)
             ELSE IF c.dtype # T THEN Outcome(Err(ErrUnexpectedDType), <<>>)
             ELSE IF ~ContiguousOffsets(c.l).some
                  THEN Outcome(Err("c has to be contiguous"), <<>>)
             ELSE IF ContiguousOffsets(c.l).o1 # 0 THEN Outcome(Err("c start offset must be 0"), <<>>)
             ELSE IF ContiguousOffsets(c.l).o2 # ElemCount(out_shape)
                  THEN Outcome(Err("c end offset must be the output element count"), <<>>)
             ELSE IF Len(c.l.dims) # 3 THEN Outcome(Err(ErrRank), <<>>)
             ELSE IF c.l.dims # out_shape THEN Outcome(Err("c does not have the correct shape"), <<>>)
             ELSE MatmulIssue(op, a, b, bias_some, out_shape, "copy_of_c", c.l.stride[1],
                              <<CloneC(ElemCount(out_shape))>>)
        ELSE MatmulIssue(op, a, b, bias_some, out_shape, fill, n * m,
                         <<Alloc(ElemCount(out_shape), fill)>>)

\* MatmulFwd without the comparison of the bias length with m
MatmulFwd_BiasUnchecked(T, op, a, b, bias, fill) ==
    IF Len(a.l.dims) # 3 \/ Len(b.l.dims) # 3 THEN Outcome(Err(ErrRank), <<>>)
    ELSE LET batch_size == a.l.dims[1]
             m == a.l.dims[2]
             k == a.l.dims[3]
             b_0 == b.l.dims[1]
             n == b.l.dims[2]
             b_2 == b.l.dims[3]
             out_shape == OutShape(batch_size, n, m)
         IN  IF b_2 # k THEN Outcome(Err("This layer only supports TN layout"), <<>>)
             ELSE IF b_0 # batch_size THEN Outcome(Err("b must have the same batch size as a"), <<>>)
             ELSE IF a.dtype # T \/ b.dtype # T THEN Outcome(Err(ErrUnexpectedDType), <<>>)
             ELSE IF bias.some /\ Len(bias.l.dims) # 1 THEN Outcome(Err(ErrRank), <<>>)
             ELSE IF bias.some /\ bias.dtype # T THEN Outcome(Err(ErrUnexpectedDType), <<>>)
             ELSE MatmulOut(T, op, a, b, bias.some, out_shape, fill)

\* fwd_f16 / fwd_bf16 / fwd_f32 (the three bodies differ only in the element
\* type T of as_cuda_slice::<T> and alloc::<T>)
MatmulFwd(T, op, a, b, bias, fill) ==
    IF Len(a.l.dims) # 3 \/ Len(b.l.dims) # 3 THEN Outcome(Err(ErrRank), <<>>)
    ELSE LET batch_size == a.l.dims[1]
             m == a.l.dims[2]
             k == a.l.dims[3]
             b_0 == b.l.dims[1]
             n == b.l.dims[2]
             b_2 == b.l.dims[3]
             out_shape == OutShape(batch_size, n, m)
         IN  IF b_2 # k THEN Outcome(Err("This layer only supports TN layout"), <<>>)
             ELSE IF b_0 # batch_size THEN Outcome(Err("b must have the same batch size as a"), <<>>)
             ELSE IF a.dtype # T \/ b.dtype # T THEN Outcome(Err(ErrUnexpectedDType), <<>>)
             ELSE IF bias.some /\ Len(bias.l.dims) # 1 THEN Outcome(Err(ErrRank), <<>>)
             ELSE IF bias.some /\ bias.l.dims[1] # m THEN Outcome(Err("Bias does not have the correct shape"), <<>>)
             ELSE IF bias.some /\ bias.dtype # T THEN Outcome(Err(ErrUnexpectedDType), <<>>)
             ELSE MatmulOut(T, op, a, b, bias.some, out_shape, fill)

fwd_f16(op, a, b, bias, fill) == MatmulFwd("F16", op, a, b, bias, fill)
fwd_bf16(op, a, b, bias, fill) == MatmulFwd("BF16", op, a, b, bias, fill)
fwd_f32(op, a, b, bias, fill) == MatmulFwd("F32", op, a, b, bias, fill)

\* CustomOp2::cuda_fwd (bias = None) and CustomOp3::cuda_fwd (bias = Some)
MatmulCudaFwd(op, a, b, bias, fill) ==
    IF a.dtype = "F16" THEN fwd_f16(op, a, b, bias, fill)
    ELSE IF a.dtype = "BF16" THEN fwd_bf16(op, a, b, bias, fill)
    ELSE IF a.dtype = "F32" THEN fwd_f32(op, a, b, bias, fill)
    ELSE Outcome(Err("cublaslt-batch-matmul is only supported for f16/bf16/f32"), <<>>)

\* CustomOp2::cpu_fwd and CustomOp3::cpu_fwd
MatmulCpuFwd(op, a, b, bias) == Outcome(Err("no cpu support for cublaslt-batch-matmul"), <<>>)

\* fused_batch_matmul with the cuda forward run for operands of every backend
FusedBatchMatmul_CudaEverywhere(backend, a, b, out, alpha, beta, bias, act, fill) ==
    MatmulCudaFwd([act |-> act, c |-> out, alpha |-> alpha, beta |-> beta], a, b, bias, fill)

\* fused_batch_matmul(a, b, out, alpha, beta, bias, act, cublaslt):
\* op = CublasLTBatchMatmul { act, c: out.cloned(), alpha, beta }, then
\* a.apply_op3(b, bias, op) or a.apply_op2(b, op)
FusedBatchMatmul(backend, a, b, out, alpha, beta, bias, act, fill) ==
    LET op == [act |-> act, c |-> out, alpha |-> alpha, beta |-> beta]
    IN  IF backend = "cuda" THEN MatmulCudaFwd(op, a, b, bias, fill)
        ELSE MatmulCpuFwd(op, a, b, bias)

(***************************************************************************)
(* Fixed-point arithmetic for the element values.  An element of an input  *)
(* tensor is an integer k standing for k / Unit; a computed value is an    *)
(* integer standing for value / One.                                       *)
(***************************************************************************)
One == 10 ^ FracDigits

\* the terms of the series of exp(-k / Unit) after term j - 1 (of magnitude term)
RECURSIVE ExpSeries(_, _, _)
ExpSeries(k, j, term) ==
    LET next == (term * k) \div (Unit * j)
    IN  IF next = 0 THEN 0
        ELSE (IF j % 2 = 1 THEN 0 - next ELSE next) + ExpSeries(k, j + 1, next)

\* T::exp of the non-positive argument -k / Unit
ExpNeg(k) == One + ExpSeries(k, 1, One)

\* the first n decimal digits of r / den, for 0 <= r < den
RECURSIVE DivDigits(_, _, _)
DivDigits(r, den, n) ==
    IF n = 0 THEN 0
    ELSE ((r * 10) \div den) * (10 ^ (n - 1)) + DivDigits((r * 10) % den, den, n - 1)

\* num / den for two computed values
FixDiv(num, den) == (num \div den) * One + DivDigits(num % den, den, FracDigits)

RECURSIVE SeqMax(_)
SeqMax(s) ==
    IF Len(s) = 1 THEN s[1]
    ELSE LET m == SeqMax(Tail(s)) IN IF s[1] > m THEN s[1] ELSE m

RECURSIVE SeqSum(_)
SeqSum(s) == IF s = <<>> THEN 0 ELSE s[1] + SeqSum(Tail(s))

(***************************************************************************)
(* softmax-last-dim: SoftmaxLastDim (CustomOp1 and InplaceOp1),            *)
(* softmax_last_dim, inplace_softmax_last_dim.                             *)
(* A tensor is [l |-> layout, dtype |-> element type, data |-> the         *)
(* elements of its storage].                                               *)
(***************************************************************************)
Tensor(l, dtype, data) == [l |-> l, dtype |-> dtype, data |-> data]

ErrNotContiguous == "input has to be contiguous"
ErrNoKernel == "kernel function not found"
PanicIndex == "index out of bounds"
PanicChunkSize == "chunk_size must not be zero"
PanicDivByZero == "attempt to divide by zero"

\* the row closure with the division by sum_exp left out
SoftmaxRow_Unnormalized(src) ==
    LET max == SeqMax(src)
    IN  [i \in 1..Len(src) |-> ExpNeg(max - src[i])]

\* the closure of par_chunks(dim_m1).for_each: one row
\*   max = reduce_max(src); d = exp(s - max); sum_exp = reduce_sum(d); d /= sum_exp
SoftmaxRow(src) ==
    LET max == SeqMax(src)
        num == [i \in 1..Len(src) |-> ExpNeg(max - src[i])]
        sum_exp == SeqSum(num)
    IN  [i \in 1..Len(src) |-> FixDiv(num[i], sum_exp)]

\* the whole of src taken as a single row
SoftmaxChunks_OneRow(src, dim_m1) == SoftmaxRow(src)

\* src.par_chunks(dim_m1).zip(dst.par_chunks_mut(dim_m1)).for_each(..): every
\* chunk of dim_m1 elements is one row
SoftmaxChunks(src, dim_m1) ==
    [i \in 1..Len(src) |->
        LET row == (i - 1) \div dim_m1
        IN  SoftmaxRow(SubSeq(src, row * dim_m1 + 1, (row + 1) * dim_m1))[((i - 1) % dim_m1) + 1]]

\* the steps both CPU forwards share: the dtype match, contiguous_offsets,
\* dims[dims.len() - 1] and par_chunks(dim_m1); Ok when the rows are processed
SoftmaxCpuChecks(l, dtype) ==
    IF dtype \notin {"BF16", "F16", "F32", "F64"} THEN Err("unsupported dtype for softmax")
    ELSE IF ~ContiguousOffsets(l).some THEN Err(ErrNotContiguous)
    ELSE IF Len(l.dims) = 0 THEN Panic(PanicIndex)
    ELSE IF DimMinus(l.dims, 1) = 0 THEN Panic(PanicChunkSize)
    ELSE Ok(l.dims)

\* the region [o1, o2) of the storage that the layout addresses
Region(t) ==
    SubSeq(t.data, ContiguousOffsets(t.l).o1 + 1, ContiguousOffsets(t.l).o2)

\* CustomOp1::cpu_fwd of SoftmaxLastDim: a new buffer dst with the softmax of
\* every row of src[o1..o2]
SoftmaxCpuFwd(t) ==
    LET chk == SoftmaxCpuChecks(t.l, t.dtype)
    IN  IF chk.kind # "ok" THEN Outcome(chk, <<>>)
        ELSE Outcome(OkStorage(t.l.dims, t.dtype, ElemCount(t.l.dims),
                               SoftmaxChunks(Region(t), DimMinus(t.l.dims, 1))), <<>>)

\* the rows written from the start of the storage, whatever the offset o1
SoftmaxCpuInplaceData_OffsetIgnored(t) ==
    LET new == SoftmaxChunks(Region(t), DimMinus(t.l.dims, 1))
    IN  [i \in 1..Len(t.data) |-> IF i <= Len(new) THEN new[i] ELSE t.data[i]]

\* InplaceOp1::cpu_fwd of SoftmaxLastDim: the storage after the call, the
\* rows of src[o1..o2] overwritten with their softmax
SoftmaxCpuInplaceData(t) ==
    LET o1 == ContiguousOffsets(t.l).o1
        o2 == ContiguousOffsets(t.l).o2
        new == SoftmaxChunks(Region(t), DimMinus(t.l.dims, 1))
    IN  [i \in 1..Len(t.data) |->
            IF i > o1 /\ i <= o2 THEN new[i - o1] ELSE t.data[i]]

SoftmaxCpuInplace(t) ==
    LET chk == SoftmaxCpuChecks(t.l, t.dtype)
    IN  IF chk.kind # "ok" THEN [res |-> chk, dev |-> <<>>, data |-> t.data]
        ELSE [res |-> Ok(NoShape), dev |-> <<>>, data |-> SoftmaxCpuInplaceData(t)]

\* the steps both CUDA forwards share (Map1 / Map1InPlace ::f): contiguous_offsets,
\* dims[dims.len() - 1], el / dim_m1, get_or_load_func
SoftmaxCudaChecks(l, dtype) ==
    IF ~ContiguousOffsets(l).some THEN Err(ErrNotContiguous)
    ELSE IF Len(l.dims) = 0 THEN Panic(PanicIndex)
    ELSE IF DimMinus(l.dims, 1) = 0 THEN Panic(PanicDivByZero)
    ELSE IF dtype \notin {"BF16", "F16", "F32", "F64"} THEN Err(ErrNoKernel)
    ELSE Ok(l.dims)

\* what the device softmax kernel writes for the region it is given
SoftmaxKernel(t) == SoftmaxChunks(Region(t), DimMinus(t.l.dims, 1))

\* CustomOp1::cuda_fwd
SoftmaxCudaFwd(t) ==
    LET chk == SoftmaxCudaChecks(t.l, t.dtype)
    IN  IF chk.kind # "ok" THEN Outcome(chk, <<>>)
        ELSE Outcome(OkStorage(t.l.dims, t.dtype, ElemCount(t.l.dims), SoftmaxKernel(t)),
                     <<Alloc(ElemCount(t.l.dims), "uninit"), Kernel("softmax")>>)

\* InplaceOp1::cuda_fwd: the kernel reads and writes src
SoftmaxCudaInplace(t) ==
    LET chk == SoftmaxCudaChecks(t.l, t.dtype)
    IN  IF chk.kind # "ok" THEN [res |-> chk, dev |-> <<>>, data |-> t.data]
        ELSE [res |-> Ok(NoShape), dev |-> <<Kernel("softmax")>>,
              data |-> SoftmaxCpuInplaceData(t)]

\* the steps both Metal forwards share, after device.command_buffer():
\* the dtype match, layout.stride()[n - 1] and the contiguity test
SoftmaxMetalChecks(l, dtype) ==
    IF dtype \notin {"F32", "F16", "BF16"} THEN Err("softmax-last-dim is not implemented for dtype")
    ELSE IF Len(l.stride) = 0 THEN Panic(PanicIndex)
    ELSE IF ~(IsContiguous(l) /\ l.stride[Len(l.stride)] = 1)
         THEN Err("Non contiguous softmax-last-dim is not implemented")
    ELSE Ok(l.dims)

\* CustomOp1::metal_fwd
SoftmaxMetalFwd(t) ==
    LET chk == SoftmaxMetalChecks(t.l, t.dtype)
    IN  IF chk.kind # "ok" THEN Outcome(chk, <<CommandBuffer>>)
        ELSE Outcome(OkStorage(t.l.dims, t.dtype, ElemCount(t.l.dims), SoftmaxKernel(t)),
                     <<CommandBuffer, NewBuffer("softmax", ElemCount(t.l.dims)),
                       Kernel("softmax")>>)

\* InplaceOp1::metal_fwd
SoftmaxMetalInplace(t) ==
    LET chk == SoftmaxMetalChecks(t.l, t.dtype)
    IN  IF chk.kind # "ok" THEN [res |-> chk, dev |-> <<CommandBuffer>>, data |-> t.data]
        ELSE [res |-> Ok(NoShape), dev |-> <<CommandBuffer, Kernel("softmax")>>,
              data |-> SoftmaxCpuInplaceData(t)]

\* softmax_last_dim: xs.apply_op1_no_bwd(&SoftmaxLastDim)
softmax_last_dim(backend, t) ==
    IF backend = "cpu" THEN SoftmaxCpuFwd(t)
    ELSE IF backend = "cuda" THEN SoftmaxCudaFwd(t)
    ELSE SoftmaxMetalFwd(t)

\* inplace_softmax_last_dim: xs.inplace_op1(&SoftmaxLastDim)
inplace_softmax_last_dim(backend, t) ==
    IF backend = "cpu" THEN SoftmaxCpuInplace(t)
    ELSE IF backend = "cuda" THEN SoftmaxCudaInplace(t)
    ELSE SoftmaxMetalInplace(t)

(***************************************************************************)
(* The generic softmax: softmax(xs, dim), a composition of tensor           *)
(* operators.  The operators work on the elements in logical (row-major)    *)
(* order; dim is an index from 0, or -1 for D::Minus1.                      *)
(***************************************************************************)
\* the position in the storage of the i-th element of a layout
StorageIndex(l, i) ==
    l.start_offset + 1
    + SeqSum([j \in 1..Len(l.dims) |->
                (((i - 1) \div Prod(SubSeq(l.dims, j + 1, Len(l.dims)))) % l.dims[j])
                * l.stride[j]])

\* the elements of a tensor in logical order
Elements(t) == [i \in 1..ElemCount(t.l.dims) |-> t.data[StorageIndex(t.l, i)]]

\* for the i-th element of a tensor of shape dims: the position of its slice
\* along dim in the tensor reduced (keepdim) along dim
KeepdimIndex(dims, dim, i) ==
    LET d == dims[dim + 1]
        inner == Prod(SubSeq(dims, dim + 2, Len(dims)))
    IN  ((i - 1) \div (d * inner)) * inner + ((i - 1) % inner) + 1

\* max_keepdim(dim) and sum_keepdim(dim): the reduction of every slice along dim
ReduceKeepdim(f, dims, x, dim) ==
    LET d == dims[dim + 1]
        inner == Prod(SubSeq(dims, dim + 2, Len(dims)))
        outer == Prod(SubSeq(dims, 1, dim))
    IN  [j \in 1..(outer * inner) |->
            LET slice == [c \in 1..d |->
                            x[((j - 1) \div inner) * d * inner + (c - 1) * inner
                              + ((j - 1) % inner) + 1]]
            IN  IF f = "max" THEN SeqMax(slice) ELSE SeqSum(slice)]

\* softmax(xs, dim), xs being t
softmax(t, dim) ==
    LET dims == t.l.dims
        index == IF dim < 0 THEN Len(dims) + dim ELSE dim
    IN  IF index < 0 \/ index >= Len(dims) THEN Err(ErrDimOutOfRange)
        ELSE IF ElemCount(dims) = 0 THEN Err("empty tensor for reduce")
        ELSE LET x == Elements(t)
                 max == ReduceKeepdim("max", dims, x, index)
                 \* diff = xs - max (<= 0); num = exp(diff)
                 diff == [i \in 1..Len(x) |-> x[i] - max[KeepdimIndex(dims, index, i)]]
                 num == [i \in 1..Len(x) |-> ExpNeg(0 - diff[i])]
                 den == ReduceKeepdim("sum", dims, num, index)
             IN  OkStorage(dims, t.dtype, ElemCount(dims),
                           [i \in 1..Len(x) |-> FixDiv(num[i], den[KeepdimIndex(dims, index, i)])])

(***************************************************************************)
(* dropout and Dropout::forward.  drop_p is [nan |-> BOOLEAN, k |-> k] for *)
(* the f32 k / Unit (or NaN); rand holds the elements k / Unit of          *)
(* Tensor::rand(0, 1, xs.shape()), each in [0, 1).  The result holds the   *)
(* computed values in logical order.                                       *)
(***************************************************************************)
\* dropout with the mask taken as rand > drop_p
dropout_MaskGt(t, drop_p, rand) ==
    IF ~(~drop_p.nan /\ 0 <= drop_p.k /\ drop_p.k < Unit)
    THEN Err("dropout probability has to be in [0, 1)")
    ELSE LET scale == FixDiv(Unit, Unit - drop_p.k)
             mask == [i \in 1..Len(rand) |-> IF rand[i] > drop_p.k THEN scale ELSE 0]
         IN  OkStorage(t.l.dims, t.dtype, ElemCount(t.l.dims),
                       [i \in 1..Len(rand) |-> (Elements(t)[i] * mask[i]) \div Unit])

\* dropout(xs, drop_p)
\*   scale = 1 / (1 - drop_p); mask = rand.ge(drop_p).to_dtype(..) * scale;
\*   xs * mask
dropout(t, drop_p, rand) ==
    IF ~(~drop_p.nan /\ 0 <= drop_p.k /\ drop_p.k < Unit)
    THEN Err("dropout probability has to be in [0, 1)")
    ELSE LET scale == FixDiv(Unit, Unit - drop_p.k)
             mask == [i \in 1..Len(rand) |-> IF rand[i] >= drop_p.k THEN scale ELSE 0]
         IN  OkStorage(t.l.dims, t.dtype, ElemCount(t.l.dims),
                       [i \in 1..Len(rand) |-> (Elements(t)[i] * mask[i]) \div Unit])

\* Dropout::forward(xs, train) of Dropout { drop_p }
DropoutForward(drop_p, t, train, rand) ==
    IF train THEN dropout(t, drop_p, rand)
    ELSE OkStorage(t.l.dims, t.dtype, ElemCount(t.l.dims),
                   [i \in 1..ElemCount(t.l.dims) |-> (Elements(t)[i] * One) \div Unit])

(***************************************************************************)
(* rms-norm and layer-norm: RmsNorm (CustomOp2), rms_norm, LayerNorm       *)
(* (CustomOp3), layer_norm.  The operands are [l |-> layout, dtype |->     *)
(* element type, data |-> elements of the storage].                        *)
(***************************************************************************)
ErrDTypeMismatch == "dtype mismatch in op"

\* the element types the CPU norms are instantiated for
NormCpuDType(dtype) == dtype \in {"BF16", "F16", "F32"}
\* the element types the Metal norm kernels exist for
NormMetalDType(dtype) == dtype \in {"F32", "F16", "BF16"}
\* the element types the CUDA reduce kernels are compiled for
NormCudaDType(dtype) == dtype \in {"BF16", "F16", "F32", "F64"}

\* eps of the call: 1e-5
Eps == One \div (10 ^ 5)

\* v * v for the input element k / Unit
Sqr(k) == (k * k * One) \div (Unit * Unit)

\* the integer iteration s <- (s + v / s) / 2 from a start s above the root:
\* it descends to the largest s with s * s <= v * One
RECURSIVE SqrtNewton(_, _)
SqrtNewton(v, s) ==
    LET next == (s + FixDiv(v, s)) \div 2
    IN  IF next >= s THEN s ELSE SqrtNewton(v, next)

\* f32::sqrt of a computed value v, 0 < v <= 4
Sqrt(v) == SqrtNewton(v, 2 * One)

\* s / m for the input element k / Unit and the computed value m
InputOver(k, m) ==
    IF k >= 0 THEN FixDiv(k * One, Unit * m) ELSE 0 - FixDiv((0 - k) * One, Unit * m)

\* the spacing of the f32 values around the magnitude a, from the spacing u:
\* an f32 has a significand of 24 bits
RECURSIVE Ulp(_, _)
Ulp(a, u) == IF a \div u < 2 ^ 24 THEN u ELSE Ulp(a, 2 * u)

\* the f32 nearest to the computed value v (ties to the even significand);
\* below 2 ^ 24 / One the spacing is that of the fixed point, 1 / One
F32(v) ==
    LET a == IF v < 0 THEN 0 - v ELSE v
        u == Ulp(a, 1)
        q == a \div u
        r == a % u
        m == IF 2 * r > u \/ (2 * r = u /\ q % 2 = 1) THEN (q + 1) * u ELSE q * u
    IN  IF v < 0 THEN 0 - m ELSE m

\* the input element k / Unit as an f32: v.as_()
Value(k) == F32((k * One) \div Unit)

\* a * b for two computed f32 values: the product of the magnitudes, taken in
\* halves of the digits so that no intermediate exceeds the integer range
Mul(a, b) ==
    LET H == 10 ^ ((FracDigits + 1) \div 2)
        c == (H * H) \div One
        ma == IF a < 0 THEN 0 - a ELSE a
        mb == IF b < 0 THEN 0 - b ELSE b
        X == (ma \div H) * (mb \div H)
        Y == (ma \div H) * (mb % H) + (ma % H) * (mb \div H)
        Z == (ma % H) * (mb % H)
        p == X * c + (c * Y + (c * Z) \div H) \div H
    IN  F32(IF (a < 0) # (b < 0) THEN 0 - p ELSE p)

\* a / b for two computed f32 values, b > 0
Div(a, b) == F32(IF a < 0 THEN 0 - FixDiv(0 - a, b) ELSE FixDiv(a, b))

\* sum += v over a slice, from the f32 accumulator acc
RECURSIVE Accumulate(_, _)
Accumulate(acc, s) == IF s = <<>> THEN acc ELSE Accumulate(F32(acc + s[1]), Tail(s))

\* the closure of par_chunks(dim_m1).for_each of LayerNorm::cpu_fwd: one row
\*   sum = sum of v; sum2 = sum of v * v; mean = sum / dim_m1;
\*   var = sum2 / dim_m1 - mean * mean; inv_std = 1 / sqrt(var + eps);
\*   d = (s - mean) * inv_std * alpha + beta
\* (s - mean) * inv_std is taken as the quotient (s - mean) / sqrt(var + eps)
LayerNormRow(src, alpha, beta) ==
    LET dim_m1 == Len(src)
        v == [i \in 1..dim_m1 |-> Value(src[i])]
        sum == Accumulate(0, v)
        sum2 == Accumulate(0, [i \in 1..dim_m1 |-> Mul(v[i], v[i])])
        mean == Div(sum, dim_m1 * One)
        var == F32(Div(sum2, dim_m1 * One) - Mul(mean, mean))
        std == Sqrt(F32(var + Eps))
    IN  [i \in 1..dim_m1 |->
           F32(Mul(Div(F32(v[i] - mean), std), Value(alpha[i])) + Value(beta[i]))]

\* src.par_chunks(dim_m1).zip(dst.par_chunks_mut(dim_m1)).for_each(..): the
\* rows of dim_m1 elements one after the other
RECURSIVE LayerNormChunks(_, _, _, _)
LayerNormChunks(src, alpha, beta, dim_m1) ==
    IF Len(src) < dim_m1 \/ src = <<>> THEN <<>>
    ELSE LayerNormRow(SubSeq(src, 1, dim_m1), alpha, beta)
         \o LayerNormChunks(SubSeq(src, dim_m1 + 1, Len(src)), alpha, beta, dim_m1)

\* what the device layernorm kernel writes for the regions it is given
LayerNormKernel(x, alpha, beta) ==
    LayerNormChunks(Region(x), Region(alpha), Region(beta), DimMinus(x.l.dims, 1))

\* the row closure with the multiplication by alpha left out
RmsNormRow_AlphaIgnored(src, alpha) ==
    LET dim_m1 == Len(src)
        sum2 == SeqSum([i \in 1..dim_m1 |-> Sqr(src[i])])
        m == Sqrt((sum2 \div dim_m1) + Eps)
    IN  [i \in 1..dim_m1 |-> InputOver(src[i], m)]

\* the closure of par_chunks(dim_m1).for_each of RmsNorm::cpu_fwd: one row
\*   sum2 = sum of v * v; m = sqrt(sum2 / dim_m1 + eps); d = s / m * alpha
RmsNormRow(src, alpha) ==
    LET dim_m1 == Len(src)
        sum2 == SeqSum([i \in 1..dim_m1 |-> Sqr(src[i])])
        m == Sqrt((sum2 \div dim_m1) + Eps)
    IN  [i \in 1..dim_m1 |-> (InputOver(src[i], m) * alpha[i]) \div Unit]

\* src.par_chunks(dim_m1).zip(dst.par_chunks_mut(dim_m1)).for_each(..): the
\* rows of dim_m1 elements one after the other
RECURSIVE RmsNormChunks(_, _, _)
RmsNormChunks(src, alpha, dim_m1) ==
    IF Len(src) < dim_m1 \/ src = <<>> THEN <<>>
    ELSE RmsNormRow(SubSeq(src, 1, dim_m1), alpha)
         \o RmsNormChunks(SubSeq(src, dim_m1 + 1, Len(src)), alpha, dim_m1)

\* what the device rmsnorm kernel writes for the regions it is given
RmsNormKernel(x, alpha) == RmsNormChunks(Region(x), Region(alpha), DimMinus(x.l.dims, 1))

\* the tensor a forward of RmsNorm or of LayerNorm returns
RmsNormOk(x, data) == OkStorage(x.l.dims, x.dtype, ElemCount(x.l.dims), data)

\* RmsNorm::cpu_fwd with the contiguity test of alpha left out
RmsNormCpuFwd_AlphaUnchecked(x, alpha) ==
    IF ~(x.dtype = alpha.dtype /\ NormCpuDType(x.dtype))
    THEN Outcome(Err("unsupported dtype for rmsnorm"), <<>>)
    ELSE IF ~ContiguousOffsets(x.l).some THEN Outcome(Err(ErrNotContiguous), <<>>)
    ELSE IF DimMinus(x.l.dims, 1) = 0 THEN Outcome(Panic(PanicChunkSize), <<>>)
    ELSE Outcome(Ok(x.l.dims), <<>>)

\* RmsNorm::cpu_fwd: the match on (s1, s2), then inner
RmsNormCpuFwd(x, alpha) ==
    IF ~(x.dtype = alpha.dtype /\ NormCpuDType(x.dtype))
    THEN Outcome(Err("unsupported dtype for rmsnorm"), <<>>)
    ELSE IF ~ContiguousOffsets(x.l).some THEN Outcome(Err(ErrNotContiguous), <<>>)
    ELSE IF ~ContiguousOffsets(alpha.l).some THEN Outcome(Err("alpha has to be contiguous"), <<>>)
    ELSE IF DimMinus(x.l.dims, 1) = 0 THEN Outcome(Panic(PanicChunkSize), <<>>)
    ELSE Outcome(RmsNormOk(x, RmsNormChunks(Region(x), Region(alpha), DimMinus(x.l.dims, 1))), <<>>)

\* RmsNorm::cuda_fwd: Map2::map (one element type for both slices), then f
RmsNormCudaFwd(x, alpha) ==
    IF x.dtype # alpha.dtype THEN Outcome(Err(ErrDTypeMismatch), <<>>)
    ELSE IF ~ContiguousOffsets(x.l).some THEN Outcome(Err(ErrNotContiguous), <<>>)
    ELSE IF ~ContiguousOffsets(alpha.l).some THEN Outcome(Err("alpha has to be contiguous"), <<>>)
    ELSE IF DimMinus(x.l.dims, 1) = 0 THEN Outcome(Panic(PanicDivByZero), <<>>)
    ELSE IF ~NormCudaDType(x.dtype) THEN Outcome(Err(ErrNoKernel), <<>>)
    ELSE Outcome(RmsNormOk(x, RmsNormKernel(x, alpha)),
                 <<Alloc(ElemCount(x.l.dims), "uninit"), Kernel("rmsnorm")>>)

\* RmsNorm::metal_fwd
RmsNormMetalFwd(x, alpha) ==
    IF ~(x.dtype = alpha.dtype /\ NormMetalDType(x.dtype))
    THEN Outcome(Err("rmsnorm is not implemented for dtypes"), <<CommandBuffer>>)
    ELSE IF ~(IsContiguous(x.l) /\ IsContiguous(alpha.l))
    THEN Outcome(Err("Non contiguous rmsnorm is not implemented"), <<CommandBuffer>>)
    ELSE Outcome(RmsNormOk(x, RmsNormKernel(x, alpha)),
                 <<CommandBuffer, NewBuffer("rmsnorm", ElemCount(x.l.dims)), Kernel("rmsnorm")>>)

\* rms_norm(xs, alpha, eps)
rms_norm(backend, x, alpha) ==
    IF ~MinusOk(x.l.dims, 1) THEN Outcome(Err(ErrDimOutOfRange), <<>>)
    ELSE IF Len(alpha.l.dims) # 1 THEN Outcome(Err(ErrRank), <<>>)
    ELSE IF DimMinus(x.l.dims, 1) # alpha.l.dims[1] THEN Outcome(Err("shape mismatch in rms-norm"), <<>>)
    ELSE IF backend = "cpu" THEN RmsNormCpuFwd(x, alpha)
    ELSE IF backend = "cuda" THEN RmsNormCudaFwd(x, alpha)
    ELSE RmsNormMetalFwd(x, alpha)

\* LayerNorm::cpu_fwd: the match on (s1, s2, s3), then inner
LayerNormCpuFwd(x, alpha, beta) ==
    IF ~(x.dtype = alpha.dtype /\ x.dtype = beta.dtype /\ NormCpuDType(x.dtype))
    THEN Outcome(Err("unsupported dtype for rmsnorm"), <<>>)
    ELSE IF ~ContiguousOffsets(x.l).some THEN Outcome(Err(ErrNotContiguous), <<>>)
    ELSE IF ~ContiguousOffsets(alpha.l).some THEN Outcome(Err("alpha has to be contiguous"), <<>>)
    ELSE IF ~ContiguousOffsets(beta.l).some THEN Outcome(Err("beta has to be contiguous"), <<>>)
    ELSE IF DimMinus(x.l.dims, 1) = 0 THEN Outcome(Panic(PanicChunkSize), <<>>)
    ELSE Outcome(RmsNormOk(x, LayerNormChunks(Region(x), Region(alpha), Region(beta),
                                              DimMinus(x.l.dims, 1))), <<>>)

\* LayerNorm::cuda_fwd: Map3::map (one element type for the three slices), then f
LayerNormCudaFwd(x, alpha, beta) ==
    IF ~(x.dtype = alpha.dtype /\ x.dtype = beta.dtype)
    THEN Outcome(Err(ErrDTypeMismatch), <<>>)
    ELSE IF ~ContiguousOffsets(x.l).some THEN Outcome(Err(ErrNotContiguous), <<>>)
    ELSE IF ~ContiguousOffsets(alpha.l).some THEN Outcome(Err("alpha has to be contiguous"), <<>>)
    ELSE IF ~ContiguousOffsets(beta.l).some THEN Outcome(Err("beta has to be contiguous"), <<>>)
    ELSE IF DimMinus(x.l.dims, 1) = 0 THEN Outcome(Panic(PanicDivByZero), <<>>)
    ELSE IF ~NormCudaDType(x.dtype) THEN Outcome(Err(ErrNoKernel), <<>>)
    ELSE Outcome(RmsNormOk(x, LayerNormKernel(x, alpha, beta)),
                 <<Alloc(ElemCount(x.l.dims), "uninit"), Kernel("layernorm")>>)

\* LayerNorm::metal_fwd
LayerNormMetalFwd(x, alpha, beta) ==
    IF ~(x.dtype = alpha.dtype /\ x.dtype = beta.dtype /\ NormMetalDType(x.dtype))
    THEN Outcome(Err("layernorm is not implemented for dtypes"), <<CommandBuffer>>)
    ELSE IF ~(IsContiguous(x.l) /\ IsContiguous(alpha.l) /\ IsContiguous(beta.l))
    THEN Outcome(Err("Non contiguous layernorm is not implemented"), <<CommandBuffer>>)
    ELSE Outcome(RmsNormOk(x, LayerNormKernel(x, alpha, beta)),
                 <<CommandBuffer, NewBuffer("layernorm", ElemCount(x.l.dims)),
                   Kernel("layernorm")>>)

\* layer_norm with only the length of alpha compared with the hidden size
layer_norm_BetaUnchecked(backend, x, alpha, beta) ==
    IF ~MinusOk(x.l.dims, 1) THEN Outcome(Err(ErrDimOutOfRange), <<>>)
    ELSE IF Len(alpha.l.dims) # 1 THEN Outcome(Err(ErrRank), <<>>)
    ELSE IF Len(beta.l.dims) # 1 THEN Outcome(Err(ErrRank), <<>>)
    ELSE IF DimMinus(x.l.dims, 1) # alpha.l.dims[1]
    THEN Outcome(Err("shape mismatch in layer-norm"), <<>>)
    ELSE IF backend = "cpu" THEN LayerNormCpuFwd(x, alpha, beta)
    ELSE IF backend = "cuda" THEN LayerNormCudaFwd(x, alpha, beta)
    ELSE LayerNormMetalFwd(x, alpha, beta)

\* layer_norm(xs, alpha, beta, eps)
layer_norm(backend, x, alpha, beta) ==
    IF ~MinusOk(x.l.dims, 1) THEN Outcome(Err(ErrDimOutOfRange), <<>>)
    ELSE IF Len(alpha.l.dims) # 1 THEN Outcome(Err(ErrRank), <<>>)
    ELSE IF Len(beta.l.dims) # 1 THEN Outcome(Err(ErrRank), <<>>)
    ELSE IF DimMinus(x.l.dims, 1) # alpha.l.dims[1] \/ DimMinus(x.l.dims, 1) # beta.l.dims[1]
    THEN Outcome(Err("shape mismatch in layer-norm"), <<>>)
    ELSE IF backend = "cpu" THEN LayerNormCpuFwd(x, alpha, beta)
    ELSE IF backend = "cuda" THEN LayerNormCudaFwd(x, alpha, beta)
    ELSE LayerNormMetalFwd(x, alpha, beta)

(***************************************************************************)
(* attn-softmax-last-dim: AttnSoftmaxLastDim (InplaceOp2 and CustomOp2),   *)
(* attn_softmax_last_dim, inplace_attn_softmax_last_dim.  The operands are *)
(* [l |-> layout, dtype |-> element type]; a successful call is Ok with    *)
(* the shape of the tensor it returns.                                     *)
(***************************************************************************)

\* call_last_attn_softmax: reads xs at in_offset, writes the buffer out at out_offset
AttnKernel(in_offset, out, out_offset) ==
    [ev |-> "kernel", name |-> "attn_softmax", n |-> 0,
     in_offset |-> in_offset, out |-> out, out_offset |-> out_offset]

\* the checks both Metal forwards make after device.command_buffer()
AttnMetalChecks(a, mask) ==
    IF a.dtype \notin {"F32", "F16", "BF16"} THEN Err("attn-softmax-last-dim is not implemented for dtype")
    ELSE IF ~IsContiguous(a.l) THEN Err("Non contiguous xs for attn-softmax-last-dim is not implemented")
    ELSE IF ~IsContiguous(mask.l) THEN Err("Non contiguous mask for attn-softmax-last-dim is not implemented")
    ELSE IF Len(a.l.dims) # 4 THEN Err("attn-softmax-last-dim expects xs of rank 2")
    ELSE IF Len(mask.l.dims) # 2 THEN Err("attn-softmax-last-dim expects mask of rank 2")
    ELSE IF DimMinus(mask.l.dims, 1) # DimMinus(a.l.dims, 1)
            \/ DimMinus(mask.l.dims, 2) # DimMinus(a.l.dims, 2)
    THEN Err("attn-softmax-last-dim expects last 2 dims to match xs last 2 dims")
    ELSE Ok(a.l.dims)

\* InplaceOp2::metal_fwd: the kernel writes a_s.buffer() from offset 0
AttnMetalInplace(a, mask) ==
    LET chk == AttnMetalChecks(a, mask)
    IN  IF chk.kind # "ok" THEN Outcome(chk, <<CommandBuffer>>)
        ELSE Outcome(Ok(NoShape),
                     <<CommandBuffer, AttnKernel(a.l.start_offset, "xs", 0)>>)

\* CustomOp2::metal_fwd: the kernel writes the new buffer from the offset of xs
AttnMetalFwd(a, mask) ==
    LET chk == AttnMetalChecks(a, mask)
    IN  IF chk.kind # "ok" THEN Outcome(chk, <<CommandBuffer>>)
        ELSE Outcome(Ok(a.l.dims),
                     <<CommandBuffer, NewBuffer("attn-softmax", ElemCount(a.l.dims)),
                       AttnKernel(a.l.start_offset, "attn-softmax", a.l.start_offset)>>)

\* Tensor::broadcast_add: the shapes are aligned at their last dimension; two
\* aligned dimensions are compatible when they are equal or one of them is 1
BroadcastOk(d1, d2) ==
    \A k \in 1..(IF Len(d1) < Len(d2) THEN Len(d1) ELSE Len(d2)) :
        \/ DimMinus(d1, k) = DimMinus(d2, k)
        \/ DimMinus(d1, k) = 1
        \/ DimMinus(d2, k) = 1

BroadcastShape(d1, d2) ==
    LET n == IF Len(d1) < Len(d2) THEN Len(d2) ELSE Len(d1)
        at(d, i) == IF i - (n - Len(d)) >= 1 THEN d[i - (n - Len(d))] ELSE 1
    IN  [i \in 1..n |-> IF at(d1, i) = 1 THEN at(d2, i) ELSE at(d1, i)]

\* softmax_last_dim(&(xs.broadcast_add(mask)? * scale as f64)?): the sum is a
\* new contiguous tensor of the broadcast shape
AttnUnfused(backend, a, mask) ==
    IF a.dtype # mask.dtype THEN Outcome(Err(ErrDTypeMismatch), <<>>)
    ELSE IF ~BroadcastOk(a.l.dims, mask.l.dims) THEN Outcome(Err("shape mismatch in broadcast_add"), <<>>)
    ELSE LET shape == BroadcastShape(a.l.dims, mask.l.dims)
             chk == IF backend = "cpu"
                    THEN SoftmaxCpuChecks(ContiguousLayout(shape), a.dtype)
                    ELSE SoftmaxCudaChecks(ContiguousLayout(shape), a.dtype)
             pre == IF backend = "cpu" THEN <<>>
                    ELSE <<Kernel("badd"), Kernel("affine")>>
         IN  IF chk.kind # "ok" THEN Outcome(chk, pre)
             ELSE IF backend = "cpu" THEN Outcome(Ok(shape), pre)
             ELSE Outcome(Ok(shape),
                          pre \o <<Alloc(ElemCount(shape), "uninit"), Kernel("softmax")>>)

\* attn_softmax_last_dim(xs, mask, scale)
attn_softmax_last_dim(backend, a, mask) ==
    IF backend = "metal" THEN AttnMetalFwd(a, mask)
    ELSE AttnUnfused(backend, a, mask)

\* off Metal the result is computed and dropped: xs stays as it was bound
inplace_attn_softmax_last_dim_NotRebound(backend, a, mask) ==
    LET r == IF backend = "metal" THEN AttnMetalInplace(a, mask)
             ELSE AttnUnfused(backend, a, mask)
    IN  [res |-> IF r.res.kind = "ok" THEN Ok(NoShape) ELSE r.res, dev |-> r.dev,
         buf |-> "xs", l |-> a.l]

\* inplace_attn_softmax_last_dim(xs, mask, scale): the outcome, and the buffer
\* and layout xs is bound to afterwards; off Metal xs is rebound to the new
\* tensor when the unfused computation succeeds
inplace_attn_softmax_last_dim(backend, a, mask) ==
    IF backend = "metal"
    THEN LET r == AttnMetalInplace(a, mask)
         IN  [res |-> r.res, dev |-> r.dev, buf |-> "xs", l |-> a.l]
    ELSE LET r == AttnUnfused(backend, a, mask)
         IN  IF r.res.kind = "ok"
             THEN [res |-> Ok(NoShape), dev |-> r.dev, buf |-> "new",
                   l |-> ContiguousLayout(r.res.shape)]
             ELSE [res |-> r.res, dev |-> r.dev, buf |-> "xs", l |-> a.l]

(***************************************************************************)
(* Operands of the sdpa calls.                                             *)
(***************************************************************************)
KvSeqLens ==
    {2, TWO_PASS_K_THRESHOLD - 1, TWO_PASS_K_THRESHOLD, TWO_PASS_K_THRESHOLD + 1}

\* q (bs, qhead, seq, hidden), k (bs, kv_head, kv_seq, hidden),
\* v (bs, kv_head, kv_seq, v_hidden); k may disagree with q on hidden and
\* v with k on the head count
SdpaRegularShapes ==
    UNION {{[q |-> <<b, qh, seq, d>>, k |-> <<b, kh, kseq, dk>>, v |-> <<b, vh, kseq, 64>>] :
              b \in 1..MaxBatch, qh \in 1..MaxQHeads, seq \in {0, 1, 2},
              kseq \in KvSeqLens, dk \in {d, 32}, vh \in {kh, 1}} :
           d \in {17, 32, 64, 96, 128, 256}, kh \in {0, 1, 2}}

\* operands that are not rank 4, or that disagree on the batch size or on
\* the k/v sequence length
SdpaIrregularShapes ==
    {[q |-> <<2, 32>>, k |-> <<1, 1, 2, 32>>, v |-> <<1, 1, 2, 64>>],
     [q |-> <<1, 2, 2, 32>>, k |-> <<1, 1, 2, 32>>, v |-> <<1, 2, 64>>],
     [q |-> <<1, 2, 2, 32>>, k |-> <<2, 32>>, v |-> <<1, 1, 2, 64>>],
     [q |-> <<1, 2, 2, 32>>, k |-> <<32>>, v |-> <<1, 1, 2, 64>>],
     [q |-> <<1, 1, 2, 2, 32>>, k |-> <<1, 2, 2, 32>>, v |-> <<1, 2, 2, 64>>],
     [q |-> <<2, 2, 1, 32>>, k |-> <<1, 2, 2, 32>>, v |-> <<1, 2, 2, 64>>],
     [q |-> <<1, 2, 2, 32>>, k |-> <<1, 2, 2, 32>>, v |-> <<1, 2, 3, 64>>],
     [q |-> <<1, 2, 1, 64>>, k |-> <<2, 1, 2, 64>>, v |-> <<1, 1, 4, 64>>]}

\* on the cpu: the irregular operands and the regular ones of one batch, one
\* q head and the shortest k/v sequence
SdpaShapes(backend) ==
    IF backend = "metal" THEN SdpaRegularShapes \cup SdpaIrregularShapes
    ELSE SdpaIrregularShapes
         \cup {s \in SdpaRegularShapes : s.q[1] = 1 /\ s.q[2] = 1 /\ s.k[3] = 2}

\* element types of (q, k, v) and the operand that is a strided view
SdpaVariants ==
    {[dt |-> <<"F16", "F16", "F16">>, nc |-> x] : x \in {"none", "q", "k", "v"}}
    \cup {[dt |-> t, nc |-> "none"] :
            t \in {<<"F32", "F32", "F32">>, <<"F64", "F64", "F64">>,
                   <<"F16", "F32", "F16">>, <<"F16", "F16", "F32">>}}

\* a transposed view is taken only of shapes whose last two dims are >= 2
CanStride(dims) ==
    Len(dims) >= 2 /\ dims[Len(dims)] >= 2 /\ dims[Len(dims) - 1] >= 2

OperandLayout(dims, strided) ==
    IF strided /\ CanStride(dims) THEN StridedLayout(dims) ELSE ContiguousLayout(dims)

(***************************************************************************)
(* Operands of the fused_batch_matmul calls.                               *)
(***************************************************************************)
\* a (batch, m, k) and b (b_0, n, b_2)
MatmulRegularShapes ==
    UNION {{[a |-> <<batch, m, 8>>, b |-> <<b_0, 5, b_2>>] :
              m \in {4, 5}, b_0 \in {batch, 1}, b_2 \in {8, 7}} :
           batch \in 1..MaxBatch}

MatmulIrregularShapes ==
    {[a |-> <<4, 8>>, b |-> <<2, 5, 8>>],
     [a |-> <<2, 4, 8>>, b |-> <<2, 1, 5, 8>>]}

\* on the cpu: the irregular operands and the regular ones of batch size 1
MatmulShapes(backend) ==
    IF backend = "cuda" THEN MatmulRegularShapes \cup MatmulIrregularShapes
    ELSE MatmulIrregularShapes \cup {s \in MatmulRegularShapes : s.a[1] = 1}

\* element types of (a, b) and the operand that is a strided view
MatmulVariants ==
    {[dt |-> <<"F16", "F16">>, nc |-> x] : x \in {"none", "a", "b"}}
    \cup {[dt |-> t, nc |-> "none"] :
            t \in {<<"BF16", "BF16">>, <<"F32", "F32">>, <<"F64", "F64">>,
                   <<"F16", "F32">>}}

\* the bias the caller passes, for a of shape (batch, m, k)
Biases(a) ==
    IF Len(a.l.dims) # 3 THEN {None}
    ELSE LET m == a.l.dims[2]
         IN  {None,
              SomeT(ContiguousLayout(<<m>>), a.dtype, "cuda"),
              SomeT(ContiguousLayout(<<m + 1>>), a.dtype, "cuda"),
              SomeT(ContiguousLayout(<<1, m>>), a.dtype, "cuda")}

\* the accumulator (out) the caller passes
Accumulators(a, b) ==
    IF Len(a.l.dims) # 3 \/ Len(b.l.dims) # 3 THEN {None}
    ELSE LET batch == a.l.dims[1]
             m == a.l.dims[2]
             n == b.l.dims[2]
             rm == RowMajorStride(<<batch, n, m>>)
         IN  {None,
              SomeT(ContiguousLayout(<<batch, n, m>>), a.dtype, "cuda"),
              SomeT(ContiguousLayout(<<batch, n, m + 1>>), a.dtype, "cuda"),
              SomeT(Layout(<<batch, n, m>>, rm, 1), a.dtype, "cuda"),
              SomeT(StridedLayout(<<batch, n, m>>), a.dtype, "cuda"),
              SomeT(ContiguousLayout(<<batch, m, n>>), a.dtype, "cuda"),
              SomeT(ContiguousLayout(<<batch * n, m>>), a.dtype, "cuda"),
              SomeT(ContiguousLayout(<<batch, n, m>>), a.dtype, "cpu"),
              SomeT(ContiguousLayout(<<batch, n, m>>), "F64", "cuda")}

(***************************************************************************)
(* rms_norm_slow: the composition of tensor operators.  to_dtype between   *)
(* the float types does not change a value at the resolution of One.       *)
(***************************************************************************)
\* rms_norm_slow(x, alpha, eps); the elements are computed for a 1-D alpha of
\* the hidden size, for another alpha that broadcasts only the shape is given
rms_norm_slow(x, alpha) ==
    LET dims == x.l.dims
    IN  IF ~MinusOk(dims, 1) THEN Err(ErrDimOutOfRange)
        ELSE IF x.dtype \notin {"BF16", "F16", "F32", "F64"} THEN Err("unsupported dtype for sqrt")
        ELSE IF alpha.dtype # x.dtype THEN Err(ErrDTypeMismatch)
        ELSE IF ~BroadcastOk(dims, alpha.l.dims) THEN Err("shape mismatch in broadcast_mul")
        ELSE IF alpha.l.dims # <<DimMinus(dims, 1)>>
             THEN OkStorage(BroadcastShape(dims, alpha.l.dims), x.dtype,
                            Prod(BroadcastShape(dims, alpha.l.dims)), NoData)
        ELSE LET index == Len(dims) - 1
                 hidden_size == DimMinus(dims, 1)
                 xe == Elements(x)
                 \* norm_x = x.sqr().sum_keepdim(D::Minus1) / hidden_size
                 sums == ReduceKeepdim("sum", dims, [i \in 1..Len(xe) |-> Sqr(xe[i])], index)
                 norm_x == [j \in 1..Len(sums) |-> sums[j] \div hidden_size]
                 \* x_normed = x.broadcast_div((norm_x + eps).sqrt())
                 den == [j \in 1..Len(sums) |-> Sqrt(norm_x[j] + Eps)]
                 x_normed == [i \in 1..Len(xe) |->
                                InputOver(xe[i], den[KeepdimIndex(dims, index, i)])]
                 ae == Elements(alpha)
             IN  OkStorage(dims, x.dtype, ElemCount(dims),
                           [i \in 1..Len(xe) |->
                              (x_normed[i] * ae[((i - 1) % hidden_size) + 1]) \div Unit])

\* layer_norm_slow(x, alpha, beta, eps); the elements are computed for 1-D
\* alpha and beta of the hidden size, for others that broadcast only the
\* shape is given
layer_norm_slow(x, alpha, beta) ==
    LET dims == x.l.dims
        shape == BroadcastShape(BroadcastShape(dims, alpha.l.dims), beta.l.dims)
    IN  IF ~MinusOk(dims, 1) THEN Err(ErrDimOutOfRange)
        ELSE IF x.dtype \notin {"BF16", "F16", "F32", "F64"} THEN Err("unsupported dtype for sqrt")
        ELSE IF alpha.dtype # x.dtype \/ beta.dtype # x.dtype THEN Err(ErrDTypeMismatch)
        ELSE IF ~BroadcastOk(dims, alpha.l.dims) THEN Err("shape mismatch in broadcast_mul")
        ELSE IF ~BroadcastOk(BroadcastShape(dims, alpha.l.dims), beta.l.dims)
             THEN Err("shape mismatch in broadcast_add")
        ELSE IF alpha.l.dims # <<DimMinus(dims, 1)>> \/ beta.l.dims # <<DimMinus(dims, 1)>>
                \/ ElemCount(dims) = 0
             THEN OkStorage(shape, x.dtype, Prod(shape), NoData)
        ELSE LET index == Len(dims) - 1
                 hidden_size == DimMinus(dims, 1)
                 xe == [i \in 1..ElemCount(dims) |-> Value(Elements(x)[i])]
                 \* mean_x = x.sum_keepdim(D::Minus1) / hidden_size
                 mean_x == [j \in 1..(ElemCount(dims) \div hidden_size) |->
                              Div(Accumulate(0, SubSeq(xe, (j - 1) * hidden_size + 1,
                                                       j * hidden_size)),
                                  hidden_size * One)]
                 \* x = x.broadcast_sub(mean_x)
                 xc == [i \in 1..Len(xe) |-> F32(xe[i] - mean_x[KeepdimIndex(dims, index, i)])]
                 \* norm_x = x.sqr().sum_keepdim(D::Minus1) / hidden_size
                 sqr == [i \in 1..Len(xe) |-> Mul(xc[i], xc[i])]
                 norm_x == [j \in 1..Len(mean_x) |->
                              Div(Accumulate(0, SubSeq(sqr, (j - 1) * hidden_size + 1,
                                                       j * hidden_size)),
                                  hidden_size * One)]
                 \* x_normed = x.broadcast_div((norm_x + eps).sqrt())
                 den == [j \in 1..Len(mean_x) |-> Sqrt(F32(norm_x[j] + Eps))]
                 x_normed == [i \in 1..Len(xe) |-> Div(xc[i], den[KeepdimIndex(dims, index, i)])]
                 ae == Elements(alpha)
                 be == Elements(beta)
             IN  OkStorage(dims, x.dtype, ElemCount(dims),
                           [i \in 1..Len(xe) |->
                              F32(Mul(x_normed[i], Value(ae[((i - 1) % hidden_size) + 1]))
                                  + Value(be[((i - 1) % hidden_size) + 1]))])

(***************************************************************************)
(* Inputs of the softmax calls.                                            *)
(***************************************************************************)
\* the rows of n elements k / Unit whose sum is at most s / Unit
RECURSIVE RowsUpTo(_, _)
RowsUpTo(n, s) ==
    IF n = 0 THEN {<<>>}
    ELSE UNION {{<<v>> \o r : r \in RowsUpTo(n - 1, s - v)} : v \in 0..s}

Reverse(s) == [i \in 1..Len(s) |-> s[Len(s) + 1 - i]]

\* for a row: the 1-D tensor of it at offset 0, the 1-D tensor of it at
\* offset 1 of a longer storage, the 2-row tensor of it and of its reverse,
\* and the transposed (strided) view of that storage
TensorsOfRow(row, dtype) ==
    LET n == Len(row)
        two == row \o Reverse(row)
    IN  {Tensor(ContiguousLayout(<<n>>), dtype, row),
         Tensor(Layout(<<n>>, RowMajorStride(<<n>>), 1), dtype, <<Unit>> \o row \o <<Unit>>),
         Tensor(ContiguousLayout(<<2, n>>), dtype, two),
         Tensor(OperandLayout(<<2, n>>, TRUE), dtype, two)}

\* tensors with an empty last dimension, and of rank 0
DegenerateTensors(dtype) ==
    {Tensor(ContiguousLayout(<<0>>), dtype, <<>>),
     Tensor(ContiguousLayout(<<2, 0>>), dtype, <<>>),
     Tensor(ContiguousLayout(<<>>), dtype, <<Unit>>)}

SoftmaxTensors ==
    UNION {DegenerateTensors(dtype) \cup
           UNION {TensorsOfRow(row, dtype) :
                    row \in UNION {RowsUpTo(n, Unit) : n \in 1..MaxLastDim}} :
           dtype \in {"F32", "F64", "U8"}}

Backends == {"cpu", "cuda", "metal"}

(***************************************************************************)
(* Operands of the norm calls.                                             *)
(***************************************************************************)
\* xs of one or two rows of n elements, the two-row one also transposed;
\* and a rank-0 xs
NormInputs ==
    {ContiguousLayout(<<>>)} \cup
    UNION {{ContiguousLayout(<<n>>), ContiguousLayout(<<2, n>>), OperandLayout(<<2, n>>, TRUE)} :
             n \in 0..MaxLastDim}

\* for xs of hidden size n: the weight of n elements, the same strided, one
\* of n + 1 elements and one of rank 2
NormWeights(n) ==
    {ContiguousLayout(<<n>>), (IF n >= 2 THEN StridedLayout(<<n>>) ELSE ContiguousLayout(<<n>>)), ContiguousLayout(<<n + 1>>),
     ContiguousLayout(<<1, n>>)}

HiddenSize(l) == IF MinusOk(l.dims, 1) THEN DimMinus(l.dims, 1) ELSE 1

\* the element types of (xs, alpha, beta)
NormDTypes ==
    {<<"F32", "F32", "F32">>, <<"F16", "F16", "F16">>, <<"F64", "F64", "F64">>,
     <<"U8", "U8", "U8">>, <<"F32", "F16", "F32">>, <<"F32", "F32", "F16">>}

\* the elements of the storages of xs (layout l) and alpha (layout la): every
\* row of magnitude at most 1 / 2 in all (the first element of either sign)
\* and the weights 1/2, 1, 3/2 .. where the operands are F32, contiguous and
\* matching, one row of 1 / Unit and the weights 1 otherwise
RmsNormValues(l, la, dt) ==
    LET n == HiddenSize(l)
        every == /\ dt[1] = "F32" /\ dt[2] = "F32" /\ n >= 1
                 /\ Len(l.dims) >= 1 /\ IsContiguous(l) /\ la = ContiguousLayout(<<n>>)
        r == RowsUpTo(n, Unit \div 2)
        rows == IF every THEN r \cup {[row EXCEPT ![1] = 0 - row[1]] : row \in r}
                ELSE {[i \in 1..n |-> 1]}
        size == IF IsContiguous(la) THEN Prod(la.dims) ELSE 2 * Prod(la.dims)
        weights == IF every THEN {[i \in 1..size |-> (i * Unit) \div 2]}
                   ELSE {[i \in 1..size |-> Unit]}
    IN  {[x |-> IF Len(l.dims) = 2 THEN row \o Reverse(row) ELSE row, alpha |-> w] :
           row \in rows, w \in weights}

\* the elements of the storages of xs (layout l), alpha (la) and beta (lb):
\* where the operands are F32, contiguous and matching, every row of
\* magnitude at most 1 / 2 in all (the first element of either sign), the
\* row of two elements 1 / Unit apart at a mean that is large beside that
\* spacing (and whose square stays in the integer range), the weights 1/2,
\* 1, 3/2 .. and the biases 0, 1 / Unit ..; one row of 1 / Unit, the weights
\* 1 and the biases 1 otherwise
LayerNormValues(l, la, lb, dt) ==
    LET n == HiddenSize(l)
        every == /\ dt = <<"F32", "F32", "F32">> /\ n >= 1
                 /\ Len(l.dims) >= 1 /\ IsContiguous(l)
                 /\ la = ContiguousLayout(<<n>>) /\ lb = la
        r == RowsUpTo(n, Unit \div 2)
        mean == 2 * 10 ^ (4 - ((FracDigits + 1) \div 2))
        large == IF n = 2 THEN {<<mean * Unit, mean * Unit + 1>>} ELSE {}
        rows == IF every THEN r \cup {[row EXCEPT ![1] = 0 - row[1]] : row \in r} \cup large
                ELSE {[i \in 1..n |-> 1]}
        size(lw) == IF IsContiguous(lw) THEN Prod(lw.dims) ELSE 2 * Prod(lw.dims)
    IN  {[x |-> IF Len(l.dims) = 2 THEN row \o Reverse(row) ELSE row,
          alpha |-> [i \in 1..size(la) |-> IF every THEN (i * Unit) \div 2 ELSE Unit],
          beta |-> [i \in 1..size(lb) |-> IF every THEN i - 1 ELSE Unit]] : row \in rows}

(***************************************************************************)
(* sigmoid: Sigmoid (CustomOp1) with its backward, and the entry points by *)
(* which the public operators apply their custom operators.  The operand   *)
(* of sigmoid holds elements k / Unit with k >= 0.                         *)
(***************************************************************************)
\* fwd of Sigmoid::cpu_fwd: (v.neg().exp() + T::one()).recip()
SigmoidFwd(k) == Div(One, ExpNeg(k) + One)

\* Sigmoid::cpu_fwd, cuda_fwd and metal_fwd: unary_map of fwd over the
\* elements (any layout), or the device kernel
sigmoid(backend, t) ==
    LET n == ElemCount(t.l.dims)
        y == OkStorage(t.l.dims, t.dtype, n, [i \in 1..n |-> SigmoidFwd(Elements(t)[i])])
    IN  IF backend = "cpu"
        THEN IF t.dtype \in {"BF16", "F16", "F32", "F64"} THEN Outcome(y, <<>>)
             ELSE Outcome(Err("unsupported dtype for op sigmoid"), <<>>)
        ELSE IF backend = "cuda"
        THEN IF t.dtype \in {"BF16", "F16", "F32", "F64"}
             THEN Outcome(y, <<Alloc(n, "uninit"), Kernel("usigmoid")>>)
             ELSE Outcome(Err(ErrNoKernel), <<>>)
        ELSE IF t.dtype \in {"F16", "F32", "BF16"}
             THEN Outcome(y, <<NewBuffer("sigmoid", n), CommandBuffer, Kernel("sigmoid")>>)
             ELSE Outcome(Err("Metal unary sigmoid not implemented"),
                          <<NewBuffer("sigmoid", n), CommandBuffer>>)

\* the backward with the factor res left out: grad_res * (1 - res)
SigmoidBwd_WithoutRes(res, grad_res) ==
    OkStorage(res.shape, res.dtype, res.elem_count,
              [i \in 1..Len(res.data) |-> Mul(grad_res[i], One - res.data[i])])

\* Sigmoid::bwd(_arg, res, grad_res): Ok(Some(grad_res * ((1 - res) * res)))
SigmoidBwd(res, grad_res) ==
    OkStorage(res.shape, res.dtype, res.elem_count,
              [i \in 1..Len(res.data) |->
                 Mul(grad_res[i], Mul(One - res.data[i], res.data[i]))])

\* the method of Tensor by which the public operator op applies its custom
\* operator on the backend
EntryPoint(op, backend) ==
    CASE op = "sigmoid" -> "apply_op1"
      [] op = "softmax_last_dim" -> "apply_op1_no_bwd"
      [] op = "inplace_softmax_last_dim" -> "inplace_op1"
      [] op = "attn_softmax_last_dim" ->
            IF backend = "metal" THEN "apply_op2_no_bwd" ELSE "apply_op1_no_bwd"
      [] op = "inplace_attn_softmax_last_dim" ->
            IF backend = "metal" THEN "inplace_op2" ELSE "apply_op1_no_bwd"
      [] op = "rms_norm" -> "apply_op2_no_bwd"
      [] op = "layer_norm" -> "apply_op3_no_bwd"
      [] op = "sdpa" -> "apply_op3_no_bwd"
      [] op = "fused_batch_matmul" -> "apply_op2"
      [] OTHER -> "none"

\* whether the result of the entry point carries the custom operator for the
\* backward pass (BackpropOp::new1 .. new3, for operands that are tracked)
Recorded(entry) == entry \in {"apply_op1", "apply_op2", "apply_op3"}

(***************************************************************************)
(* Operands of the attn-softmax calls.                                     *)
(***************************************************************************)
AttnXsShapes ==
    {<<1, 2, 2, 4>>, <<2, 1, 3, 4>>, <<2, 3, 4>>, <<1, 1, 2, 3, 4>>, <<3, 4>>, <<4>>}
AttnMaskShapes ==
    {<<2, 4>>, <<3, 4>>, <<1, 4>>, <<4>>, <<1, 3, 4>>, <<2, 3>>, <<4, 3>>}

(***************************************************************************)
(* The state machine.                                                      *)
(***************************************************************************)
Bound(buf, t) == [bound |-> TRUE, buf |-> buf, l |-> t.l, dtype |-> t.dtype, data |-> t.data]

Init ==
    /\ pc = "idle"
    /\ call = [op |-> "none"]
    /\ result = NoResult
    /\ dev = <<>>
    /\ xs = [bound |-> FALSE]
    /\ workers = <<>>

\* sdpa(q, k, v, scale, softcapping)
SdpaCall ==
    /\ pc = "idle"
    /\ \E backend \in {"cpu", "metal"} :
       \E s \in SdpaShapes(backend), var \in SdpaVariants :
          LET q == Operand(OperandLayout(s.q, var.nc = "q"), var.dt[1])
              k == Operand(OperandLayout(s.k, var.nc = "k"), var.dt[2])
              v == Operand(OperandLayout(s.v, var.nc = "v"), var.dt[3])
              out == SdpaFwd(backend, q, k, v)
          IN  /\ call' = [op |-> "sdpa", backend |-> backend, q |-> q, k |-> k, v |-> v]
              /\ result' = out.res
              /\ dev' = out.dev
    /\ pc' = "done"
    /\ UNCHANGED xs
    /\ UNCHANGED workers

\* fused_batch_matmul(a, b, out, alpha, beta, bias, act, cublaslt)
FusedBatchMatmulCall ==
    /\ pc = "idle"
    /\ \E backend \in {"cpu", "cuda"} :
       \E s \in MatmulShapes(backend), var \in MatmulVariants :
          LET a == Operand(OperandLayout(s.a, var.nc = "a"), var.dt[1])
              b == Operand(OperandLayout(s.b, var.nc = "b"), var.dt[2])
          IN  \E bias \in Biases(a), out \in Accumulators(a, b), beta \in {None, SomeF(0), SomeF(1)},
                 act \in {None, SomeF("gelu")}, fill \in {"zeros", "garbage"} :
                 LET r == FusedBatchMatmul(backend, a, b, out, None, beta, bias, act, fill)
                 IN  /\ call' = [op |-> "fused_batch_matmul", backend |-> backend,
                                 a |-> a, b |-> b, out |-> out, alpha |-> None,
                                 beta |-> beta, bias |-> bias, act |-> act]
                     /\ result' = r.res
                     /\ dev' = r.dev
    /\ pc' = "done"
    /\ UNCHANGED xs
    /\ UNCHANGED workers

\* softmax_last_dim(xs)
SoftmaxLastDimCall ==
    /\ pc = "idle"
    /\ \E backend \in Backends, t \in SoftmaxTensors :
          LET r == softmax_last_dim(backend, t)
          IN  /\ call' = [op |-> "softmax_last_dim", backend |-> backend, xs |-> t]
              /\ result' = r.res
              /\ dev' = r.dev
              /\ xs' = Bound("xs", t)
    /\ pc' = "done"
    /\ UNCHANGED workers

\* inplace_softmax_last_dim(xs)
InplaceSoftmaxLastDimCall ==
    /\ pc = "idle"
    /\ \E backend \in Backends, t \in SoftmaxTensors :
          LET r == inplace_softmax_last_dim(backend, t)
          IN  /\ call' = [op |-> "inplace_softmax_last_dim", backend |-> backend, xs |-> t]
              /\ result' = r.res
              /\ dev' = r.dev
              /\ xs' = Bound("xs", Tensor(t.l, t.dtype, r.data))
    /\ pc' = "done"
    /\ UNCHANGED workers

\* rms_norm(xs, alpha, eps)
RmsNormCall ==
    /\ pc = "idle"
    /\ \E backend \in Backends, l \in NormInputs, dt \in NormDTypes :
          \E la \in NormWeights(HiddenSize(l)) :
          \E vals \in RmsNormValues(l, la, dt) :
             LET x == Tensor(l, dt[1], vals.x)
                 alpha == Tensor(la, dt[2], vals.alpha)
                 r == rms_norm(backend, x, alpha)
             IN  /\ call' = [op |-> "rms_norm", backend |-> backend, xs |-> x, alpha |-> alpha]
                 /\ result' = r.res
                 /\ dev' = r.dev
    /\ pc' = "done"
    /\ UNCHANGED xs
    /\ UNCHANGED workers

\* layer_norm(xs, alpha, beta, eps)
LayerNormCall ==
    /\ pc = "idle"
    /\ \E backend \in Backends, l \in NormInputs, dt \in NormDTypes :
          \E la \in NormWeights(HiddenSize(l)), lb \in NormWeights(HiddenSize(l)) :
          \E vals \in LayerNormValues(l, la, lb, dt) :
             LET x == Tensor(l, dt[1], vals.x)
                 alpha == Tensor(la, dt[2], vals.alpha)
                 beta == Tensor(lb, dt[3], vals.beta)
                 r == layer_norm(backend, x, alpha, beta)
             IN  /\ call' = [op |-> "layer_norm", backend |-> backend, xs |-> x,
                             alpha |-> alpha, beta |-> beta]
                 /\ result' = r.res
                 /\ dev' = r.dev
    /\ pc' = "done"
    /\ UNCHANGED xs
    /\ UNCHANGED workers

\* attn_softmax_last_dim(xs, mask, scale)
AttnSoftmaxLastDimCall ==
    /\ pc = "idle"
    /\ \E backend \in Backends, dx \in AttnXsShapes, dm \in AttnMaskShapes,
          sx \in BOOLEAN, sm \in BOOLEAN, dtype \in {"F32", "F64", "U8"},
          start_offset \in 0..1 :
          LET a == Operand([OperandLayout(dx, sx) EXCEPT !.start_offset = start_offset], dtype)
              mask == Operand(OperandLayout(dm, sm), dtype)
              r == attn_softmax_last_dim(backend, a, mask)
          IN  /\ call' = [op |-> "attn_softmax_last_dim", backend |-> backend,
                          xs |-> a, mask |-> mask]
              /\ result' = r.res
              /\ dev' = r.dev
              /\ xs' = Bound("xs", Tensor(a.l, a.dtype, NoData))
    /\ pc' = "done"
    /\ UNCHANGED workers

\* inplace_attn_softmax_last_dim(xs, mask, scale)
InplaceAttnSoftmaxLastDimCall ==
    /\ pc = "idle"
    /\ \E backend \in Backends, dx \in AttnXsShapes, dm \in AttnMaskShapes,
          sx \in BOOLEAN, sm \in BOOLEAN, dtype \in {"F32", "F64", "U8"},
          start_offset \in 0..1 :
          LET a == Operand([OperandLayout(dx, sx) EXCEPT !.start_offset = start_offset], dtype)
              mask == Operand(OperandLayout(dm, sm), dtype)
              r == inplace_attn_softmax_last_dim(backend, a, mask)
          IN  /\ call' = [op |-> "inplace_attn_softmax_last_dim", backend |-> backend,
                          xs |-> a, mask |-> mask]
              /\ result' = r.res
              /\ dev' = r.dev
              /\ xs' = Bound(r.buf, Tensor(r.l, a.dtype, NoData))
    /\ pc' = "done"
    /\ UNCHANGED workers

\* Dropout::forward(xs, train): xs of 1 .. MaxLastDim elements (one of them
\* a strided view), drop_p from below 0 to above 1 and NaN, every rand of
\* the elements 0, 1/2 and the largest below 1
DropoutForwardCall ==
    /\ pc = "idle"
    /\ \E n \in 1..MaxLastDim, strided \in BOOLEAN, dtype \in {"F32", "F16"},
          train \in BOOLEAN :
       \E drop_p \in {[nan |-> FALSE, k |-> k] : k \in (0 - 1)..(Unit + 1)}
                     \cup {[nan |-> TRUE, k |-> 0]} :
       \E rand \in IF train THEN [1..n -> {0, Unit \div 2, Unit - 1}] ELSE {<<>>} :
          LET l == IF strided /\ n >= 2 THEN StridedLayout(<<n>>) ELSE ContiguousLayout(<<n>>)
              t == Tensor(l, dtype, [i \in 1..(2 * n) |-> i % (Unit + 1)])
          IN  /\ call' = [op |-> "dropout_forward", xs |-> t, drop_p |-> drop_p,
                          train |-> train, rand |-> rand]
              /\ result' = DropoutForward(drop_p, t, train, rand)
    /\ dev' = <<>>
    /\ pc' = "done"
    /\ UNCHANGED xs
    /\ UNCHANGED workers

\* sigmoid(xs): xs of 1 .. MaxLastDim elements, contiguous or strided
SigmoidCall ==
    /\ pc = "idle"
    /\ \E backend \in Backends, n \in 1..MaxLastDim, strided \in BOOLEAN,
          shift \in 0..1, dtype \in {"F32", "F64", "U8"} :
          LET l == IF strided /\ n >= 2 THEN StridedLayout(<<n>>) ELSE ContiguousLayout(<<n>>)
              t == Tensor(l, dtype, [i \in 1..(2 * n) |-> (i + shift - 1) % (Unit + 1)])
              r == sigmoid(backend, t)
          IN  /\ call' = [op |-> "sigmoid", backend |-> backend, xs |-> t]
              /\ result' = r.res
              /\ dev' = r.dev
    /\ pc' = "done"
    /\ UNCHANGED xs
    /\ UNCHANGED workers

\* the backward pass reaching the result of the call, with the upstream
\* gradient grad_res: the bwd of the custom operator the result carries
\* (CustomOp::bwd fails with BackwardNotSupported unless the operator
\* defines it)
Backward ==
    /\ pc = "done"
    /\ result.kind = "ok"
    /\ Recorded(EntryPoint(call.op, call.backend))
    /\ \E sign \in {1, 0 - 1} :
          LET grad_res == [i \in 1..Len(result.data) |-> (sign * i * One) \div 2]
          IN  /\ call' = [op |-> call.op, backend |-> call.backend, res |-> result,
                          grad_res |-> grad_res]
              /\ result' = IF call.op = "sigmoid" THEN SigmoidBwd(result, grad_res)
                           ELSE Err("backward not supported")
    /\ pc' = "bwd"
    /\ UNCHANGED <<dev, xs>>
    /\ UNCHANGED workers

Next ==
    \/ SigmoidCall
    \/ Backward
    \/ DropoutForwardCall
    \/ SdpaCall
    \/ FusedBatchMatmulCall
    \/ SoftmaxLastDimCall
    \/ InplaceSoftmaxLastDimCall
    \/ RmsNormCall
    \/ LayerNormCall
    \/ AttnSoftmaxLastDimCall
    \/ InplaceAttnSoftmaxLastDimCall

Spec == Init /\ [][Next]_vars

(***************************************************************************)
(* The CPU kernels row by row.  src.par_chunks(dim_m1) (zipped with        *)
(* dst.par_chunks_mut(dim_m1), or src.par_chunks_mut(dim_m1) in place)     *)
(* hands every row to one run of the closure; the runs are interleaved     *)
(* statement by statement.  The operands are those that have passed the    *)
(* checks of the forward: F32 and contiguous.                              *)
(***************************************************************************)
\* every run is handed the first row
Chunk_FirstRow(r, dim_m1) == [lo |-> 1, hi |-> dim_m1]

\* the r-th chunk of chunks(dim_m1): the positions lo .. hi of the slice
Chunk(r, dim_m1) == [lo |-> (r - 1) * dim_m1 + 1, hi |-> r * dim_m1]

\* the kernels and their operands: xs of two rows (also at offset 1 of a
\* longer storage) and of three rows
RowsCalls ==
    LET tensors ==
            UNION {UNION {{Tensor(ContiguousLayout(<<2, n>>), "F32", row \o Reverse(row)),
                           Tensor(Layout(<<2, n>>, RowMajorStride(<<2, n>>), 1), "F32",
                                  <<Unit>> \o row \o Reverse(row) \o <<Unit>>),
                           Tensor(ContiguousLayout(<<3, n>>), "F32",
                                  row \o Reverse(row) \o row)} :
                          row \in RowsUpTo(n, 2)} : n \in 1..MaxLastDim}
    IN  {[op |-> op, backend |-> "cpu", xs |-> t,
          alpha |-> Tensor(ContiguousLayout(<<DimMinus(t.l.dims, 1)>>), "F32",
                           [i \in 1..DimMinus(t.l.dims, 1) |-> (i * Unit) \div 2]),
          beta |-> Tensor(ContiguousLayout(<<DimMinus(t.l.dims, 1)>>), "F32",
                          [i \in 1..DimMinus(t.l.dims, 1) |-> i - 1])] :
           op \in {"softmax_last_dim", "inplace_softmax_last_dim", "rms_norm", "layer_norm"},
           t \in tensors}

\* the forward has taken src = storage[o1..o2], made dst (vec![T::zero();
\* el_count], or src itself in place) and is about to run the closures
RowsInit ==
    /\ pc = "rows"
    /\ call \in RowsCalls
    /\ result = NoResult
    /\ dev = <<>>
    /\ xs = IF call.op = "inplace_softmax_last_dim" THEN Bound("xs", call.xs)
            ELSE [bound |-> FALSE]
    /\ workers =
          LET n == ElemCount(call.xs.l.dims)
              rows == 1..(n \div DimMinus(call.xs.l.dims, 1))
          IN  [phase |-> [r \in rows |->
                            IF call.op \in {"rms_norm", "layer_norm"} THEN "sum" ELSE "max"],
               local |-> [r \in rows |-> 0],
               dst |-> IF call.op = "inplace_softmax_last_dim" THEN Region(call.xs)
                       ELSE [i \in 1..n |-> 0],
               reads |-> [r \in rows |-> {}],
               writes |-> [i \in 1..n |-> {}],
               finished |-> <<>>]

\* the next statement of the closure of row r
\*   softmax: max = reduce_max(src); d = exp(s - max); sum_exp =
\*            reduce_sum(dst); d /= sum_exp
\*   norms:   the sums over src; then d from s, the sums, alpha (and beta)
RowStep ==
    /\ pc = "rows"
    /\ \E r \in DOMAIN workers.phase :
          LET dim_m1 == DimMinus(call.xs.l.dims, 1)
              lo == Chunk(r, dim_m1).lo
              hi == Chunk(r, dim_m1).hi
              src == IF call.op = "inplace_softmax_last_dim" THEN workers.dst
                     ELSE Region(call.xs)
              row == SubSeq(src, lo, hi)
              phase == workers.phase[r]
              Written(vals) ==
                  [workers EXCEPT
                     !.dst = [i \in 1..Len(workers.dst) |->
                                IF i >= lo /\ i <= hi THEN vals[i - lo + 1] ELSE workers.dst[i]],
                     !.writes = [i \in 1..Len(workers.dst) |->
                                   IF i >= lo /\ i <= hi THEN workers.writes[i] \cup {r}
                                   ELSE workers.writes[i]],
                     !.reads[r] = @ \cup lo..hi]
          IN  /\ phase # "done"
              /\ workers' =
                    CASE phase = "max" ->
                           [workers EXCEPT !.phase[r] = "exp", !.local[r] = SeqMax(row),
                                           !.reads[r] = @ \cup lo..hi]
                      [] phase = "exp" ->
                           [Written([c \in 1..dim_m1 |-> ExpNeg(workers.local[r] - row[c])])
                              EXCEPT !.phase[r] = "sum_exp"]
                      [] phase = "sum_exp" ->
                           [workers EXCEPT !.phase[r] = "div",
                                           !.local[r] = SeqSum(SubSeq(workers.dst, lo, hi)),
                                           !.reads[r] = @ \cup lo..hi]
                      [] phase = "div" ->
                           [Written([c \in 1..dim_m1 |->
                                       FixDiv(workers.dst[lo + c - 1], workers.local[r])])
                              EXCEPT !.phase[r] = "done", !.finished = Append(@, r)]
                      [] phase = "sum" ->
                           [workers EXCEPT !.phase[r] = "write", !.reads[r] = @ \cup lo..hi]
                      [] phase = "write" ->
                           [Written(IF call.op = "rms_norm"
                                    THEN RmsNormRow(row, Region(call.alpha))
                                    ELSE LayerNormRow(row, Region(call.alpha), Region(call.beta)))
                              EXCEPT !.phase[r] = "done", !.finished = Append(@, r)]
    /\ UNCHANGED <<pc, call, result, dev, xs>>

\* for_each has returned: every closure has run to its end.  The allocating
\* forwards return dst; in place the region of the storage of xs is what
\* the closures made of it
RowsJoin ==
    /\ pc = "rows"
    /\ \A r \in DOMAIN workers.phase : workers.phase[r] = "done"
    /\ pc' = "done"
    /\ IF call.op = "inplace_softmax_last_dim"
       THEN /\ result' = Ok(NoShape)
            /\ xs' = Bound("xs", Tensor(call.xs.l, call.xs.dtype,
                        [i \in 1..Len(call.xs.data) |->
                           LET o1 == ContiguousOffsets(call.xs.l).o1
                           IN  IF i > o1 /\ i <= o1 + Len(workers.dst)
                               THEN workers.dst[i - o1] ELSE call.xs.data[i]]))
       ELSE /\ result' = OkStorage(call.xs.l.dims, call.xs.dtype,
                                   ElemCount(call.xs.l.dims), workers.dst)
            /\ xs' = xs
    /\ UNCHANGED <<call, dev, workers>>

RowsNext ==
    \/ RowStep
    \/ RowsJoin

RowsSpec == RowsInit /\ [][RowsNext]_vars

(***************************************************************************)
(* Properties.                                                             *)
(***************************************************************************)
Done(op) == pc = "done" /\ call.op = op
SdpaOnMetal == Done("sdpa") /\ call.backend = "metal"
MatmulOnCuda == Done("fused_batch_matmul") /\ call.backend = "cuda"

\* the kernels (or vendor calls) the call launched, as indices of the device log
Launches == {i \in 1..Len(dev) : dev[i].ev \in {"kernel", "gemm"}}
Launched(name) == \E i \in Launches : dev[i].name = name

Rank4(t) == Len(t.l.dims) = 4
SdpaRank4 == Rank4(call.q) /\ Rank4(call.k) /\ Rank4(call.v)
\* the named dimensions of the sdpa operands (rank 4)
QHeads == call.q.l.dims[2]
QSeq == call.q.l.dims[3]
QDim == call.q.l.dims[4]
KHeads == call.k.l.dims[2]
KSeq == call.k.l.dims[3]
KDim == call.k.l.dims[4]
VHeads == call.v.l.dims[2]

\* the eligibility conditions 1-6 of the sdpa dispatcher, as the
\* specification states them
SdpaCond(i) ==
    CASE i = 1 -> QDim = KDim
      [] i = 2 -> KHeads = VHeads
      [] i = 3 -> QHeads % KHeads = 0
      [] i = 4 -> QDim \in {32, 64, 96, 128, 256}
      [] i = 5 -> QSeq = 1 \/ (QSeq >= 2 /\ QHeads = KHeads)
      [] i = 6 -> /\ call.q.dtype = call.k.dtype
                  /\ call.q.dtype = call.v.dtype
                  /\ call.q.dtype \in {"BF16", "F16", "F32"}
\* the errors that report condition i
SdpaCondErrors(i) ==
    CASE i = 1 -> {"q and k last dims must match"}
      [] i = 2 -> {"k and v head dims must match"}
      [] i = 3 -> {ErrSdpaMultiple}
      [] i = 4 -> {ErrSdpaHeadDim}
      [] i = 5 -> {ErrSdpaUseCase}
      [] i = 6 -> {"all q, k, v dtypes must match.", "unsupported sdpa type"}
SdpaViolated == {i \in 1..6 : ~SdpaCond(i)}
FirstViolated == CHOOSE i \in SdpaViolated : \A j \in SdpaViolated : i <= j

\* C1: on the Metal backend, an sdpa call with q sequence length >= 2 whose q
\* head count differs from the (positive) k/v head count (GQA) fails with an
\* error and launches no full-attention kernel.
C1_FullPathRejectsGqa ==
    (SdpaOnMetal /\ SdpaRank4 /\ KHeads >= 1 /\ QSeq >= 2 /\ QHeads # KHeads)
        => (result.kind = "err" /\ ~Launched("sdpa_full"))

\* C2 as stated: on the vector path (seq = 1, conditions 1-6 met) the two-pass
\* kernel is launched iff kvseq > 1024, the single-pass kernel otherwise, and
\* exactly one kernel is launched.
C2_TwoPassOnlyAboveThreshold ==
    (SdpaOnMetal /\ SdpaRank4 /\ KHeads >= 1 /\ SdpaViolated = {} /\ QSeq = 1)
        => /\ Cardinality(Launches) = 1
           /\ Launched("sdpa_vector_2pass") <=> KSeq > 1024
           /\ Launched("sdpa_vector") <=> KSeq <= 1024

\* C2 amended: on the vector path (seq = 1, conditions 1-6 met) the call
\* succeeds, launching exactly one kernel: the two-pass kernel iff
\* kvseq >= 1024, the single-pass kernel iff kvseq < 1024.
C2_TwoPassFromThreshold ==
    (SdpaOnMetal /\ SdpaRank4 /\ KHeads >= 1 /\ SdpaViolated = {} /\ QSeq = 1)
        => /\ result.kind = "ok"
           /\ Cardinality(Launches) = 1
           /\ Launched("sdpa_vector_2pass") <=> KSeq >= 1024
           /\ Launched("sdpa_vector") <=> KSeq < 1024

\* a vector-path call at exactly the threshold, which took the two-pass kernel
C2_Witness ==
    /\ SdpaOnMetal /\ SdpaRank4 /\ KHeads >= 1 /\ SdpaViolated = {}
    /\ QSeq = 1 /\ KSeq = 1024
    /\ Launched("sdpa_vector_2pass")

\* C3: an sdpa or fused_batch_matmul call that returns a validation error has
\* performed no device-side step (no buffer allocated, no command buffer
\* acquired, no kernel or vendor GEMM issued).
C3_FailureBeforeDeviceWork ==
    ((Done("sdpa") \/ Done("fused_batch_matmul")) /\ result.kind = "err")
        => dev = <<>>

\* C4: without an accumulator (out = None) the buffer handed to the vendor
\* GEMM is freshly allocated and zero-initialised and the beta handed to it is
\* 0, whatever beta the caller passed.
C4_NoAccumulatorZeroOutZeroBeta ==
    (MatmulOnCuda /\ ~call.out.some)
        => \A i \in Launches :
              /\ dev[i].out = "zeros"
              /\ dev[i].config.beta = 0

\* C6: an sdpa or fused_batch_matmul call with a non-contiguous operand
\* (q, k or v; a or b) fails with an error and launches nothing.
C6_NonContiguousRejected ==
    /\ (SdpaOnMetal /\ SdpaRank4 /\ KHeads >= 1
           /\ (\E t \in {call.q, call.k, call.v} : ~IsContiguous(t.l)))
          => (result.kind = "err" /\ Launches = {})
    /\ (MatmulOnCuda /\ (\E t \in {call.a, call.b} : ~IsContiguous(t.l)))
          => (result.kind = "err" /\ Launches = {})

\* C9: an sdpa call (rank-4 operands, k/v head count >= 1) that violates
\* several of the conditions 1-6 returns the error of the first violated one.
C9_FirstViolatedReported ==
    (SdpaOnMetal /\ SdpaRank4 /\ KHeads >= 1 /\ Cardinality(SdpaViolated) >= 2)
        => (result.kind = "err" /\ result.err \in SdpaCondErrors(FirstViolated))

\* C10: sdpa never succeeds and launches nothing when the last dimension of q
\* is outside {32, 64, 96, 128, 256}; for each of the five values the
\* head-dimension check passes (its error is not the one returned), and when
\* conditions 1-3 hold the outcome is decided by the later checks.
C10_HeadDimSet ==
    (SdpaOnMetal /\ Len(call.q.l.dims) >= 1)
        => LET d == DimMinus(call.q.l.dims, 1)
           IN  /\ d \notin {32, 64, 96, 128, 256}
                    => (result.kind # "ok" /\ Launches = {})
               /\ d \in {32, 64, 96, 128, 256} => result.err # ErrSdpaHeadDim
               /\ (SdpaRank4 /\ KHeads >= 1 /\ SdpaViolated \cap {1, 2, 3} = {})
                    => (result.err = ErrSdpaHeadDim <=> d \notin {32, 64, 96, 128, 256})

\* head dimension 17 with every other condition met: rejected by the
\* head-dimension check
C10_Witness ==
    /\ SdpaOnMetal /\ SdpaRank4 /\ KHeads >= 1
    /\ QDim = 17 /\ SdpaViolated = {4}
    /\ result.kind = "err" /\ result.err = ErrSdpaHeadDim

(***************************************************************************)
(* attn-softmax-last-dim: shape requirements.                              *)
(***************************************************************************)
AttnCall == Done("attn_softmax_last_dim") \/ Done("inplace_attn_softmax_last_dim")
\* xs is of rank 4, mask of rank 2, and mask is the last two dimensions of xs
AttnShapesOk ==
    /\ Len(call.xs.l.dims) = 4
    /\ Len(call.mask.l.dims) = 2
    /\ call.mask.l.dims = <<DimMinus(call.xs.l.dims, 2), DimMinus(call.xs.l.dims, 1)>>

\* C5: attn_softmax_last_dim and inplace_attn_softmax_last_dim fail on every
\* backend when xs is not of rank 4, or mask is not of rank 2, or mask differs
\* from the last two dimensions of xs; a result is returned only when the
\* three conditions hold.
C5_AttnShapeErrorsOnEveryBackend ==
    AttnCall =>
        /\ ~AttnShapesOk => result.kind = "err"
        /\ result.kind = "ok" => AttnShapesOk

(***************************************************************************)
(* Contiguity of the softmax and norm operands.                            *)
(***************************************************************************)
ContiguousOnlyCall ==
    \/ Done("softmax_last_dim")
    \/ Done("inplace_softmax_last_dim")
    \/ Done("rms_norm")
    \/ Done("layer_norm")

NonContiguousOperand ==
    \/ ~IsContiguous(call.xs.l)
    \/ call.op \in {"rms_norm", "layer_norm"} /\ ~IsContiguous(call.alpha.l)
    \/ call.op = "layer_norm" /\ ~IsContiguous(call.beta.l)

\* the call allocated an output buffer or launched a kernel
OutputProduced ==
    \E i \in 1..Len(dev) : dev[i].ev \in {"new_buffer", "alloc", "kernel"}

\* C7: softmax_last_dim, inplace_softmax_last_dim, rms_norm and layer_norm
\* return an error on every backend when the layout of the input (for the
\* norms also of alpha or beta) is not contiguous; no output is produced, and
\* the buffer of the in-place variant keeps its contents.
C7_NonContiguousFails ==
    (ContiguousOnlyCall /\ NonContiguousOperand) =>
        /\ result.kind = "err"
        /\ ~OutputProduced
        /\ call.op = "inplace_softmax_last_dim" =>
              (xs.buf = "xs" /\ xs.data = call.xs.data)

\* the in-place softmax on the CPU refuses a transposed input and leaves the
\* buffer as it was
C7_Witness ==
    /\ Done("inplace_softmax_last_dim")
    /\ call.backend = "cpu"
    /\ call.xs.dtype = "F32"
    /\ ~IsContiguous(call.xs.l)
    /\ result = Err(ErrNotContiguous)
    /\ xs.data = call.xs.data
    /\ xs.data # NoData

(***************************************************************************)
(* softmax-last-dim on rows that are already normalized.                   *)
(***************************************************************************)
\* the rows of the input of the call, for a contiguous input with rows
InputRows ==
    LET n == DimMinus(call.xs.l.dims, 1)
        src == Region(call.xs)
    IN  {SubSeq(src, r * n + 1, (r + 1) * n) : r \in 0..((Len(src) \div n) - 1)}

\* a contiguous F32 input with at least one row
SoftmaxOfRows ==
    /\ Done("softmax_last_dim")
    /\ call.xs.dtype = "F32"
    /\ IsContiguous(call.xs.l)
    /\ MinusOk(call.xs.l.dims, 1)
    /\ ElemCount(call.xs.l.dims) >= 1

\* non-negative entries (all elements are) that sum to 1
Normalized(row) == SeqSum(row) = Unit
\* every entry is 1 / n
Uniform(row) == \A i \in 1..Len(row) : row[i] * Len(row) = Unit

\* the computed value out equals the input element k / Unit within a relative
\* tolerance of 1e-4
Close(out, k) ==
    LET diff == out * Unit - k * One
        tol == (k * One) \div (10 ^ 4)
    IN  diff <= tol /\ 0 - diff <= tol

OutputReproducesInput ==
    /\ result.kind = "ok"
    /\ result.shape = call.xs.l.dims
    /\ Len(result.data) = Len(Region(call.xs))
    /\ \A i \in 1..Len(result.data) : Close(result.data[i], Region(call.xs)[i])

\* C8 (as claimed): for every contiguous input whose rows are normalized,
\* softmax_last_dim returns the input, entry by entry within tolerance.
C8_IdempotentOnNormalizedRows ==
    (SoftmaxOfRows /\ \A row \in InputRows : Normalized(row)) => OutputReproducesInput

\* C8 (amended): for every contiguous input whose rows are normalized and
\* uniform (each of the n entries of a row is 1 / n), softmax_last_dim
\* returns the input, entry by entry within tolerance.
C8_IdempotentOnUniformRows ==
    (SoftmaxOfRows /\ \A row \in InputRows : Uniform(row)) => OutputReproducesInput

\* two rows of three entries 1 / 3 are returned as they are
C8_Witness ==
    /\ SoftmaxOfRows
    /\ call.backend = "cpu"
    /\ call.xs.l.dims = <<2, 3>>
    /\ \A row \in InputRows : Uniform(row)
    /\ OutputReproducesInput

(***************************************************************************)
(* sdpa: head counts, sequence lengths and the returned tensor.            *)
(***************************************************************************)
\* the conditions of the dispatcher other than the one on head counts hold
\* (equal hidden sizes, a supported head dimension, k and v with one head
\* count, one supported element type)
SdpaOtherwiseEligible ==
    /\ SdpaRank4 /\ KHeads >= 1
    /\ SdpaCond(1) /\ SdpaCond(2) /\ SdpaCond(4) /\ SdpaCond(6)

\* C11: sdpa fails, launching nothing, whenever the q head count is not a
\* multiple of the (positive) k/v head count, whatever the q sequence length;
\* with q sequence length 1 every q head count that is a multiple of the k/v
\* head count is accepted: the multiple error is not raised, and the call
\* succeeds when the other conditions hold.
C11_QHeadsMultipleOfKvHeads ==
    (SdpaOnMetal /\ SdpaRank4 /\ KHeads >= 1) =>
        /\ QHeads % KHeads # 0 => (result.kind = "err" /\ Launches = {})
        /\ (QSeq = 1 /\ QHeads % KHeads = 0) =>
              /\ result.err # ErrSdpaMultiple
              /\ SdpaOtherwiseEligible => result.kind = "ok"

\* three q heads over two k/v heads are refused with the multiple error
C11_Witness ==
    /\ SdpaOnMetal /\ SdpaRank4
    /\ QHeads = 3 /\ KHeads = 2 /\ VHeads = 2 /\ QDim = KDim
    /\ result = Err(ErrSdpaMultiple)

\* C12: with q sequence length >= 2 the call does not succeed unless the q
\* and k sequence lengths are equal, and the full kernel is launched only for
\* equal lengths; with q sequence length 1 a different k/v sequence length is
\* accepted.
C12_FullPathNeedsEqualSeqLens ==
    (SdpaOnMetal /\ SdpaRank4) =>
        /\ (QSeq >= 2 /\ QSeq # KSeq) => (result.kind # "ok" /\ Launches = {})
        /\ Launched("sdpa_full") => (QSeq >= 2 /\ QSeq = KSeq)
        /\ (QSeq = 1 /\ KSeq # QSeq /\ SdpaOtherwiseEligible /\ QHeads % KHeads = 0)
              => (result.kind = "ok" /\ ~Launched("sdpa_full"))

\* q of two positions against k of 1024 positions, otherwise eligible:
\* refused with the sequence-length error
C12_Witness ==
    /\ SdpaOnMetal /\ SdpaOtherwiseEligible
    /\ QSeq = 2 /\ KSeq = TWO_PASS_K_THRESHOLD /\ QHeads = KHeads
    /\ result = Err("query and key sequence length must be equal if using full metal sdpa")
    /\ Launches = {}

\* C13: every successful sdpa call returns a tensor of shape
\* (q.dim0, q.dim1, q.dim2, v.dim3), of the element type of q, whose storage
\* (the buffer allocated for it) has the product of these as element count.
C13_SdpaOutputShape ==
    (SdpaOnMetal /\ result.kind = "ok") =>
        LET qd == call.q.l.dims
            vd == call.v.l.dims
        IN  /\ result.shape = <<qd[1], qd[2], qd[3], vd[4]>>
            /\ result.dtype = call.q.dtype
            /\ result.elem_count = qd[1] * qd[2] * qd[3] * vd[4]
            /\ dev[1] = NewBuffer("sdpa_o", qd[1] * qd[2] * qd[3] * vd[4])
            /\ Cardinality(Launches) = 1

\* a two-pass call whose v hidden size differs from the q hidden size
C13_Witness ==
    /\ SdpaOnMetal /\ result.kind = "ok"
    /\ Launched("sdpa_vector_2pass")
    /\ call.q.l.dims = <<2, 2, 1, 32>>
    /\ call.v.l.dims[4] = 64
    /\ result.shape = <<2, 2, 1, 64>>
    /\ result.dtype = "F16"

\* the operands of a fused_batch_matmul call pass every check of the cuda forward
MatmulWellFormed ==
    /\ Len(call.a.l.dims) = 3 /\ Len(call.b.l.dims) = 3
    /\ call.a.l.dims[3] = call.b.l.dims[3]
    /\ call.a.l.dims[1] = call.b.l.dims[1]
    /\ call.a.dtype = call.b.dtype /\ call.a.dtype \in {"F16", "BF16", "F32"}
    /\ call.bias.some => (call.bias.l.dims = <<call.a.l.dims[2]>> /\ call.bias.dtype = call.a.dtype)

\* C14: for every input, the CPU forward of sdpa and of the fused batched
\* matmul (2-operand form without bias, 3-operand form with bias) returns an
\* error, never a result, and does no device work.
C14_NoCpuPath ==
    ((Done("sdpa") \/ Done("fused_batch_matmul")) /\ call.backend = "cpu")
        => (result.kind = "err" /\ result.shape = NoShape /\ dev = <<>>)

\* a cpu call of the 3-operand form whose operands the cuda forward would accept
C14_Witness ==
    /\ Done("fused_batch_matmul") /\ call.backend = "cpu"
    /\ MatmulWellFormed /\ call.bias.some /\ ~call.out.some
    /\ result = Err("no cpu support for cublaslt-batch-matmul")

MatmulBadOperands ==
    \/ Len(call.a.l.dims) # 3
    \/ Len(call.b.l.dims) # 3
    \/ call.a.l.dims[3] # call.b.l.dims[3]
    \/ call.a.l.dims[1] # call.b.l.dims[1]
MatmulBadBias ==
    call.bias.some /\ (Len(call.a.l.dims) # 3 \/ call.bias.l.dims # <<call.a.l.dims[2]>>)

\* C16: the fused batched matmul fails without calling the vendor GEMM when a
\* or b is not rank 3, their k dimensions differ, their batch sizes differ, or
\* a bias is given that is not 1-D of length m; in each of the f16, bf16 and
\* f32 variants.
C16_MatmulOperandChecks ==
    (MatmulOnCuda /\ (MatmulBadOperands \/ MatmulBadBias))
        => (result.kind = "err" /\ Launches = {})

\* f32 operands with m = 4 and a bias of length 5
C16_Witness ==
    /\ MatmulOnCuda /\ ~MatmulBadOperands /\ call.a.dtype = "F32" /\ call.b.dtype = "F32"
    /\ call.a.l.dims[2] = 4 /\ call.bias.some /\ call.bias.l.dims = <<5>>
    /\ result = Err("Bias does not have the correct shape") /\ dev = <<>>

\* the accumulator of the call meets every requirement on c
AccumulatorFits ==
    LET c == call.out
        out_shape == <<call.a.l.dims[1], call.b.l.dims[2], call.a.l.dims[2]>>
    IN  /\ IsContiguous(c.l)
        /\ c.l.start_offset = 0
        /\ Prod(c.l.dims) = out_shape[1] * out_shape[2] * out_shape[3]
        /\ c.l.dims = out_shape

SoftmaxSupportedCall ==
    /\ Done("softmax_last_dim")
    /\ IsContiguous(call.xs.l)
    /\ MinusOk(call.xs.l.dims, 1)
    /\ ElemCount(call.xs.l.dims) >= 1
    /\ \/ call.xs.dtype = "F32"
       \/ call.xs.dtype = "F64" /\ call.backend \in {"cpu", "cuda"}

\* two computed values agree within a relative tolerance of 1e-4
CloseValues(a, b) ==
    LET tol == (IF b >= 0 THEN b ELSE 0 - b) \div (10 ^ 4)
    IN  a - b <= tol /\ b - a <= tol

\* C18: for every contiguous input of a supported dtype, softmax_last_dim
\* returns, element for element and within tolerance, the value of
\* softmax(xs, last dim) = exp(x - max) / sum(exp(x - max)), with the shape
\* and the dtype of the input.
C18_FusedSoftmaxIsGenericSoftmax ==
    SoftmaxSupportedCall =>
        LET generic == softmax(call.xs, -1)
        IN  /\ result.kind = "ok" /\ generic.kind = "ok"
            /\ result.shape = call.xs.l.dims /\ result.shape = generic.shape
            /\ result.dtype = call.xs.dtype /\ result.dtype = generic.dtype
            /\ Len(result.data) = ElemCount(call.xs.l.dims)
            /\ \A i \in 1..Len(result.data) : CloseValues(result.data[i], generic.data[i])

\* two rows that differ (1/6, 5/6 and its reverse), at an offset-free F64
\* tensor on the cpu
C18_Witness ==
    /\ SoftmaxSupportedCall /\ call.backend = "cpu" /\ call.xs.dtype = "F64"
    /\ call.xs.l.dims = <<2, 2>> /\ call.xs.data = <<1, 5, 5, 1>>
    /\ result.kind = "ok" /\ result.data = softmax(call.xs, -1).data
    /\ result.data[1] < result.data[2] /\ result.data[3] > result.data[4]

(***************************************************************************)
(* rms_norm and layer_norm: the shape checks of the wrappers.              *)
(***************************************************************************)
\* the weight w is 1-D and as long as the last dimension of the xs of the call
WeightFits(w) ==
    /\ MinusOk(call.xs.l.dims, 1)
    /\ w.l.dims = <<DimMinus(call.xs.l.dims, 1)>>

\* the call failed in the wrapper: no forward of any backend has run
FailedBeforeDispatch(mismatch) ==
    /\ result.kind = "err"
    /\ result.err \in {ErrDimOutOfRange, ErrRank, mismatch}
    /\ dev = <<>>

\* C19: rms_norm fails, before the fused operator is dispatched, unless alpha
\* is 1-D with the length of the last dimension of xs; layer_norm fails
\* likewise unless both alpha and beta are (one of them failing is enough).
C19_NormShapeChecksBeforeDispatch ==
    /\ (Done("rms_norm") /\ ~WeightFits(call.alpha))
          => FailedBeforeDispatch("shape mismatch in rms-norm")
    /\ (Done("layer_norm") /\ ~(WeightFits(call.alpha) /\ WeightFits(call.beta)))
          => FailedBeforeDispatch("shape mismatch in layer-norm")

\* layer_norm on metal, F32 and contiguous throughout, alpha of the hidden
\* size and beta one element longer
C19_Witness ==
    /\ Done("layer_norm") /\ call.backend = "metal"
    /\ call.xs.dtype = "F32" /\ call.alpha.dtype = "F32" /\ call.beta.dtype = "F32"
    /\ call.xs.l.dims = <<2, 3>> /\ IsContiguous(call.xs.l)
    /\ call.alpha.l = ContiguousLayout(<<3>>) /\ call.beta.l = ContiguousLayout(<<4>>)
    /\ result = Err("shape mismatch in layer-norm") /\ dev = <<>>

(***************************************************************************)
(* rms_norm against rms_norm_slow.                                         *)
(***************************************************************************)
RmsSlow == rms_norm_slow(call.xs, call.alpha)

\* rms_norm succeeded and returned the tensor of rms_norm_slow
RmsMatchesSlow ==
    /\ result.kind = "ok" /\ RmsSlow.kind = "ok"
    /\ result.shape = call.xs.l.dims /\ result.shape = RmsSlow.shape
    /\ result.dtype = call.xs.dtype /\ result.dtype = RmsSlow.dtype
    /\ Len(result.data) = ElemCount(call.xs.l.dims)
    /\ Len(RmsSlow.data) = Len(result.data)
    /\ \A i \in 1..Len(result.data) : CloseValues(result.data[i], RmsSlow.data[i])

RmsFusedSupported ==
    /\ IsContiguous(call.xs.l) /\ IsContiguous(call.alpha.l)
    /\ call.alpha.dtype = call.xs.dtype
    /\ \/ call.xs.dtype \in {"BF16", "F16", "F32"}
       \/ call.xs.dtype = "F64" /\ call.backend = "cuda"
    /\ DimMinus(call.xs.l.dims, 1) >= 1

LayerSlow == layer_norm_slow(call.xs, call.alpha, call.beta)

\* two computed values agree within a relative tolerance of 1e-3
NearValues(a, b) ==
    LET tol == (IF b >= 0 THEN b ELSE 0 - b) \div (10 ^ 3)
    IN  a - b <= tol /\ b - a <= tol

\* a contiguous xs with alpha and beta of the hidden size, of an element type
\* the fused operator has on the backend of the call
LayerFusedSupported ==
    /\ Done("layer_norm")
    /\ IsContiguous(call.xs.l) /\ MinusOk(call.xs.l.dims, 1) /\ ElemCount(call.xs.l.dims) >= 1
    /\ call.alpha.l = ContiguousLayout(<<DimMinus(call.xs.l.dims, 1)>>)
    /\ call.beta.l = call.alpha.l
    /\ call.xs.dtype = "F32" /\ call.alpha.dtype = "F32" /\ call.beta.dtype = "F32"

\* C21: for every contiguous input with alpha and beta of the hidden size,
\* layer_norm returns the tensor layer_norm_slow returns, element for
\* element within tolerance.
C21_LayerNormMatchesSlow ==
    LayerFusedSupported =>
        /\ result.kind = "ok" /\ LayerSlow.kind = "ok"
        /\ result.shape = LayerSlow.shape /\ result.dtype = LayerSlow.dtype
        /\ Len(result.data) = Len(LayerSlow.data)
        /\ \A i \in 1..Len(result.data) : NearValues(result.data[i], LayerSlow.data[i])
\* ---- C22 ----
\* C22: for every contiguous input, inplace_softmax_last_dim succeeds where
\* softmax_last_dim does, overwrites the region of the buffer of xs that the
\* layout addresses with exactly the values softmax_last_dim returns and
\* changes no element outside that region (none at all when it fails);
\* softmax_last_dim leaves the buffer of xs as it was and returns a buffer
\* of its own (on a device: one allocated in the call).
C22_InplaceSoftmaxFrame ==
    /\ (Done("inplace_softmax_last_dim") /\ IsContiguous(call.xs.l)) =>
          LET alloc == softmax_last_dim(call.backend, call.xs).res
              o1 == call.xs.l.start_offset
              n == ElemCount(call.xs.l.dims)
          IN  /\ xs.bound /\ xs.buf = "xs" /\ xs.l = call.xs.l
              /\ Len(xs.data) = Len(call.xs.data)
              /\ (result.kind = "ok") = (alloc.kind = "ok")
              /\ \A i \in 1..Len(xs.data) :
                    IF result.kind = "ok" /\ i > o1 /\ i <= o1 + n
                    THEN xs.data[i] = alloc.data[i - o1]
                    ELSE xs.data[i] = call.xs.data[i]
    /\ Done("softmax_last_dim") =>
          /\ xs = Bound("xs", call.xs)
          /\ result.kind = "ok" =>
                /\ Len(result.data) = ElemCount(call.xs.l.dims)
                /\ call.backend # "cpu" =>
                      \E j \in 1..Len(dev) :
                         /\ dev[j].ev \in {"alloc", "new_buffer"}
                         /\ dev[j].n = ElemCount(call.xs.l.dims)
                         /\ \A k \in 1..Len(dev) : dev[k].ev = "kernel" => j < k

\* an in-place call on the cpu for a row that starts at offset 1 of a longer
\* storage: the row is overwritten, the elements before and after it are kept
C22_Witness ==
    /\ Done("inplace_softmax_last_dim") /\ call.backend = "cpu" /\ result.kind = "ok"
    /\ call.xs.l.start_offset = 1 /\ call.xs.l.dims = <<2>>
    /\ call.xs.data = <<Unit, 1, 3, Unit>>
    /\ xs.data[1] = Unit /\ xs.data[4] = Unit
    /\ xs.data[2] # 1 /\ xs.data[3] # 3
    /\ xs.data[2] < xs.data[3]
\* ---- C23 ----
\* the values of the elements of the xs of the call, in logical order
InputValues == [i \in 1..ElemCount(call.xs.l.dims) |-> (Elements(call.xs)[i] * One) \div Unit]

\* C23: Dropout::forward(xs, train) returns xs unchanged whenever train is
\* false, for every drop_p (also one outside [0, 1)); with train it fails
\* exactly when drop_p is outside [0, 1), and with drop_p = 0 it returns the
\* values of xs unchanged.
C23_DropoutForward ==
    Done("dropout_forward") =>
        LET inside == ~call.drop_p.nan /\ 0 <= call.drop_p.k /\ call.drop_p.k < Unit
        IN  /\ result.kind \in {"ok", "err"}
            /\ ~call.train =>
                  /\ result.kind = "ok" /\ result.data = InputValues
                  /\ result.shape = call.xs.l.dims /\ result.dtype = call.xs.dtype
            /\ call.train => ((result.kind = "err") = ~inside)
            /\ (call.train /\ ~call.drop_p.nan /\ call.drop_p.k = 0) =>
                  /\ result.kind = "ok" /\ result.data = InputValues
                  /\ result.shape = call.xs.l.dims /\ result.dtype = call.xs.dtype

\* a training call with drop_p = 0 whose rand holds a 0 (the smallest value
\* Tensor::rand draws): every element is kept
C23_Witness ==
    /\ Done("dropout_forward") /\ call.train
    /\ ~call.drop_p.nan /\ call.drop_p.k = 0
    /\ Len(call.rand) = 2 /\ call.rand[1] = 0 /\ call.rand[2] = Unit - 1
    /\ result.kind = "ok" /\ result.data = InputValues /\ result.data[1] > 0
\* ---- C24 ----
FusedOps ==
    {"softmax_last_dim", "inplace_softmax_last_dim", "attn_softmax_last_dim",
     "inplace_attn_softmax_last_dim", "rms_norm", "layer_norm", "sdpa"}

\* C24: every fused fast-path operator is applied through a no-backward or
\* an in-place entry point, so its result carries no operator for the
\* backward pass and no backward step ever follows it; of the custom
\* operators only sigmoid has a backward that returns a gradient, and that
\* gradient is grad_res * y * (1 - y) for the forward result y.
C24_FusedForwardOnly ==
    /\ (pc \in {"done", "bwd"} /\ call.op \in FusedOps) =>
          /\ pc = "done"
          /\ EntryPoint(call.op, call.backend) \in
                {"apply_op1_no_bwd", "apply_op2_no_bwd", "apply_op3_no_bwd",
                 "inplace_op1", "inplace_op2"}
          /\ ~Recorded(EntryPoint(call.op, call.backend))
    /\ (pc = "bwd" /\ result.kind = "ok") => call.op = "sigmoid"
    /\ (pc = "bwd" /\ call.op = "sigmoid") =>
          /\ result.kind = "ok"
          /\ result.shape = call.res.shape
          /\ Len(result.data) = Len(call.res.data)
          /\ \A i \in 1..Len(result.data) :
                LET y == call.res.data[i]
                IN  NearValues(result.data[i], Mul(Mul(call.grad_res[i], y), One - y))

\* the backward of a sigmoid of two elements on the cpu has returned a
\* gradient that is not zero, for grad_res = (-1/2, -1)
C24_Witness ==
    /\ pc = "bwd" /\ call.op = "sigmoid" /\ call.backend = "cpu"
    /\ result.kind = "ok" /\ Len(result.data) = 2
    /\ call.grad_res[2] = 0 - One
    /\ result.data[1] < 0 /\ result.data[2] < result.data[1]
\* ---- C25 ----
\* C25: in the CPU softmax, rms-norm and layer-norm kernels the rows are
\* processed by parallel workers; every element of the output is written
\* by exactly one worker, a worker reads only its own row (alpha and beta
\* are read-only), and in every interleaving the output is that of the rows
\* processed one after the other.
C25_RowsIndependent ==
    LET dim_m1 == DimMinus(call.xs.l.dims, 1)
    IN  /\ \A i \in DOMAIN workers.writes :
              /\ Cardinality(workers.writes[i]) <= 1
              /\ workers.writes[i] \subseteq {((i - 1) \div dim_m1) + 1}
        /\ \A r \in DOMAIN workers.reads :
              \A i \in workers.reads[r] : ((i - 1) \div dim_m1) + 1 = r
        /\ pc = "done" =>
              /\ \A i \in DOMAIN workers.writes : Cardinality(workers.writes[i]) = 1
              /\ DOMAIN workers.writes = 1..ElemCount(call.xs.l.dims)
              /\ CASE call.op = "softmax_last_dim" ->
                        result = softmax_last_dim("cpu", call.xs).res
                   [] call.op = "inplace_softmax_last_dim" ->
                        /\ result = inplace_softmax_last_dim("cpu", call.xs).res
                        /\ xs.data = inplace_softmax_last_dim("cpu", call.xs).data
                   [] call.op = "rms_norm" ->
                        result = rms_norm("cpu", call.xs, call.alpha).res
                   [] call.op = "layer_norm" ->
                        result = layer_norm("cpu", call.xs, call.alpha, call.beta).res

\* the in-place softmax of three rows of two elements has returned, the
\* rows having been finished last row first
C25_Witness ==
    /\ pc = "done" /\ call.op = "inplace_softmax_last_dim"
    /\ call.xs.l.dims = <<3, 2>>
    /\ workers.finished = <<3, 2, 1>>
    /\ xs.data # call.xs.data
    /\ xs.data = inplace_softmax_last_dim("cpu", call.xs).data
\* ---- C26 ----
\* the call came past the checks of metal_fwd up to the head-dimension
\* check: it neither panicked nor returned one of their errors
PastHeadDimCheck ==
    /\ SdpaOnMetal
    /\ result.kind # "panic"
    /\ ~(result.kind = "err" /\
         result.err \in {ErrDimOutOfRange, "q and k last dims must match",
                         "k and v head dims must match", ErrSdpaMultiple, ErrSdpaHeadDim})

\* C26: in Sdpa::metal_fwd, past the q/k last-dimension check and the
\* supported-head-dimension check, the use-case error (does not support q
\* dims) is raised exactly when the q sequence length is 0, and no call
\* ends in the final branch, must be vector or full sdpa kernel.
C26_UseCaseErrorOnlyForEmptyQuery ==
    /\ PastHeadDimCheck =>
          ((result = Err(ErrSdpaUseCase)) <=> (Dim(call.q.l.dims, 2) = 0))
    /\ SdpaOnMetal => result # Err("must be vector or full sdpa kernel")

\* a query of sequence length 0 with a supported head dimension, equal to
\* that of k, was refused with the use-case error
C26_Witness ==
    /\ SdpaOnMetal /\ SdpaRank4
    /\ QSeq = 0 /\ QDim = KDim /\ SupportedHeadDim(QDim)
    /\ result = Err(ErrSdpaUseCase)
\* ---- C27 ----
\* C27: for a contiguous input at any start offset the Metal attn-softmax
\* writes inside the destination and where it read: the allocating variant
\* within the newly allocated buffer of elem_count elements (output offset +
\* elem_count <= buffer length), the in-place variant at the offset of the
\* buffer of xs it read the input from.
C27_AttnKernelWritesWhereItRead ==
    (AttnCall /\ call.backend = "metal" /\ IsContiguous(call.xs.l)
       /\ Launched("attn_softmax")) =>
        LET kernel == dev[CHOOSE i \in Launches : dev[i].name = "attn_softmax"]
            elem_count == ElemCount(call.xs.l.dims)
        IN  /\ call.op = "attn_softmax_last_dim" =>
                  /\ kernel.out = "attn-softmax"
                  /\ \E i \in 1..Len(dev) :
                        /\ dev[i].ev = "new_buffer" /\ dev[i].name = kernel.out
                        /\ kernel.out_offset + elem_count <= dev[i].n
            /\ call.op = "inplace_attn_softmax_last_dim" =>
                  /\ kernel.out = "xs"
                  /\ kernel.out_offset = kernel.in_offset
\* ---- C28 ----
\* the input of the call is contiguous and has rank 0 or an empty last
\* dimension
DegenerateInput ==
    /\ IsContiguous(call.xs.l)
    /\ (MinusOk(call.xs.l.dims, 1) => DimMinus(call.xs.l.dims, 1) = 0)

\* C28: the fused operators do not abort on degenerate shapes: for a
\* contiguous input of rank 0 or with a last dimension of 0, softmax_last_dim
\* (CPU and CUDA), rms_norm and layer_norm return a result or an error value,
\* and sdpa with a k/v head count of 0 returns an error value; none panics.
C28_NoPanicOnDegenerateShapes ==
    /\ (/\ \/ Done("softmax_last_dim") /\ call.backend \in {"cpu", "cuda"}
           \/ Done("rms_norm")
           \/ Done("layer_norm")
        /\ DegenerateInput) => result.kind \in {"ok", "err"}
    /\ (Done("sdpa") /\ MinusOk(call.k.l.dims, 3) /\ DimMinus(call.k.l.dims, 3) = 0) =>
          result.kind = "err"
\* ---- C29 ----
\* q, k and v are of rank 4, of one batch size, and k and v of one sequence
\* length
SdpaOperandsConsistent ==
    /\ SdpaRank4
    /\ call.q.l.dims[1] = call.k.l.dims[1]
    /\ call.k.l.dims[1] = call.v.l.dims[1]
    /\ KSeq = call.v.l.dims[3]

\* C29: an sdpa call that passes the validation and launches a kernel has
\* consistent operands: q, k and v of rank 4 and of the same batch size, k
\* and v of the same sequence length; a call whose k and v disagree on the
\* sequence length, or whose batch sizes differ, is rejected before a
\* launch.
C29_LaunchedSdpaOperandsConsistent ==
    /\ (SdpaOnMetal /\ Launches # {}) => SdpaOperandsConsistent
    /\ (SdpaOnMetal /\ SdpaRank4 /\ ~SdpaOperandsConsistent) =>
          (result.kind = "err" /\ Launches = {})
\* ---- C30 ----
\* a kernel of the call wrote to the buffer xs held before the call
WroteOriginalBuffer ==
    \E i \in Launches : dev[i].name = "attn_softmax" /\ dev[i].out = "xs"

\* C30: off Metal inplace_attn_softmax_last_dim does not write to the buffer
\* xs held before the call: it rebinds xs to a newly allocated result
\* tensor, and when the call fails xs is left bound to its original tensor;
\* only on Metal is the original buffer itself written.
C30_InplaceAttnRebindsOffMetal ==
    Done("inplace_attn_softmax_last_dim") =>
        /\ call.backend # "metal" =>
              /\ ~WroteOriginalBuffer
              /\ result.kind = "ok" =>
                    /\ xs.buf = "new"
                    /\ xs.l = ContiguousLayout(
                                 BroadcastShape(call.xs.l.dims, call.mask.l.dims))
              /\ result.kind # "ok" => (xs.buf = "xs" /\ xs.l = call.xs.l)
        /\ call.backend = "metal" =>
              /\ xs.buf = "xs" /\ xs.l = call.xs.l
              /\ result.kind = "ok" => WroteOriginalBuffer

\* on the CPU the call succeeded on a view at start offset 1 and xs is bound
\* to a new contiguous tensor at offset 0
C30_Witness ==
    /\ Done("inplace_attn_softmax_last_dim")
    /\ call.backend = "cpu"
    /\ call.xs.l.start_offset = 1
    /\ result = Ok(NoShape)
    /\ xs.buf = "new"
    /\ xs.l.start_offset = 0
    /\ dev = <<>>
====
